---- MODULE Spec2Model ----
(***************************************************************************)
(* AE Conjure: the generate -> execute -> retry loop of                    *)
(* AEConjure.RetryEngine (src/client/js/ai-client.js), modelled as a state *)
(* machine.  A run is the promise chain built by run()/executeAttempt();   *)
(* every action is one synchronous stretch of that chain: the call of      *)
(* run() itself, the settlement of the generation promise, the settlement  *)
(* of the host execution promise.                                          *)
(*                                                                         *)
(* Two runs are modelled.  Run 1 is given arbitrary options; run 2 is      *)
(* given the same options without the onAttempt/onCode callbacks and is    *)
(* started once run 1 has ended.  Both are served by the same stubs: the   *)
(* n-th provider request and the n-th host execution of either run settle  *)
(* the same way.  Run 2 is started only when its options differ from those *)
(* of run 1.  Spec starts from a fresh panel and lets the caller pass the  *)
(* callbacks; SpecRequests starts from a panel with a conversation and a   *)
(* knowledge index and follows what each generation call is given.         *)
(*                                                                         *)
(* Below the engine, AIClient.sendPrompt is modelled down to the HTTP      *)
(* exchange: the knowledge lookup, the provider switch, httpPost with its  *)
(* two transports and the then-callback that reads the envelope.  Texts    *)
(* (prompts, retry prompts) are sequences of lines.                        *)
(***************************************************************************)
EXTENDS Integers, Sequences, FiniteSets, TLC

(***************************************************************************)
(* Bounds                                                                  *)
(***************************************************************************)
MaxMaxRetries == 3

(***************************************************************************)
(* Program constants                                                       *)
(***************************************************************************)
DEFAULT_MAX_RETRIES == 3

NULL == "null"
Absent == "absent"
Fn == "function"
Unset == "unset"

Runs == {1, 2}

\* options.maxRetries as passed by the caller: omitted, negative, zero, positive
MaxRetriesInputs ==
    {[given |-> FALSE, value |-> 0]}
        \cup {[given |-> TRUE, value |-> v] : v \in {-1} \cup (0..MaxMaxRetries)}

\* no run records more attempts than this (the larger of the bound and the default)
MaxAttempts == IF MaxMaxRetries > DEFAULT_MAX_RETRIES THEN MaxMaxRetries ELSE DEFAULT_MAX_RETRIES

Codes == {"app.project.activeItem.layers.addNull();"}

\* options.prompt: the user's request
Prompts == {<<"add a null layer">>}

\* options.history: the conversation slice a caller may pass, none or two turns
Histories ==
    {<<>>,
     <<[role |-> "user", content |-> "make a solid"],
       [role |-> "assistant", content |-> "done"]>>}

\* the cases of the provider switch of sendPrompt
PROVIDERS == {"anthropic", "openai", "google"}

\* options.provider as passed by the caller: one the switch knows, one it does not
ProviderInputs == {"anthropic", "mistral"}

(***************************************************************************)
(* Values a promise is rejected with, or an exception carries              *)
(***************************************************************************)
NoReason == [type |-> "none", message |-> "", json |-> ""]

\* reject('HTTP 500: ...'), reject(e.message)
StringReason(text) == [type |-> "string", message |-> text, json |-> ""]

\* an Error object, as thrown by JSON.parse
ErrorReason(message) == [type |-> "Error", message |-> message, json |-> "{}"]

\* Promise.reject({ success: false, error: 'Unknown provider: ' + provider })
UnknownProviderReason(provider) ==
    [type |-> "object", message |-> "",
     json |-> "{success:false,error:Unknown provider: " \o provider \o "}"]

\* typeof err === 'string' ? err : (err.message || JSON.stringify(err))
ErrorText(err) ==
    IF err.type = "string" THEN err.message
    ELSE IF err.message # "" THEN err.message ELSE err.json

(***************************************************************************)
(* Settlements of the promise returned by AIClient.sendPrompt              *)
(***************************************************************************)
Resolved(success, code, error) ==
    [state |-> "resolved", success |-> success, code |-> code, error |-> error,
     reason |-> NoReason]

Rejected(reason) ==
    [state |-> "rejected", success |-> FALSE, code |-> "", error |-> NULL,
     reason |-> reason]

(***************************************************************************)
(* The HTTP exchange with a provider                                       *)
(***************************************************************************)
\* a fenced code block; the fence of three backquotes is written ''' here
Fenced(code) == "'''javascript\n" \o code \o "\n'''"

\* what the network does with one request: a socket error, or a status and a body
HttpReplies ==
    {[kind |-> "error", status |-> 0, body |-> "ECONNRESET"],
     [kind |-> "response", status |-> 500, body |-> "upstream"],
     [kind |-> "response", status |-> 200, body |-> "<html>Bad Gateway</html>"],
     [kind |-> "response", status |-> 200, body |-> "{error:{message:overloaded_error}}"],
     [kind |-> "response", status |-> 200, body |-> "{text:I cannot write that script.}"]}
        \cup {[kind |-> "response", status |-> 200, body |-> "{text:" \o Fenced(c) \o "}"] : c \in Codes}

\* a request whose outcome is not decided yet
Undecided == [kind |-> "undecided", status |-> 0, body |-> ""]

\* the promise of nodeHttpPost
nodeHttpPost(reply) ==
    IF reply.kind = "error"
    THEN [state |-> "rejected", value |-> reply.body]
    ELSE IF reply.status >= 400
         THEN [state |-> "rejected",
               value |-> "HTTP " \o ToString(reply.status) \o ": " \o reply.body]
         ELSE [state |-> "resolved", value |-> reply.body]

\* the promise of xhrPost
xhrPost(reply) ==
    IF reply.kind = "error"
    THEN [state |-> "rejected", value |-> "Network error"]
    ELSE IF reply.status >= 200 /\ reply.status < 300
         THEN [state |-> "resolved", value |-> reply.body]
         ELSE [state |-> "rejected",
               value |-> "HTTP " \o ToString(reply.status) \o ": " \o reply.body]

\* variant: the Node transport falls through to the XMLHttpRequest fallback
httpRequests_FallThrough(nodeAvailable) ==
    IF nodeAvailable THEN <<"https.request", "XMLHttpRequest">> ELSE <<"XMLHttpRequest">>

\* the requests one httpPost call puts on the wire
httpRequests(nodeAvailable) ==
    IF nodeAvailable THEN <<"https.request">> ELSE <<"XMLHttpRequest">>

\* the promise of httpPost
httpPost(nodeAvailable, reply) ==
    IF nodeAvailable THEN nodeHttpPost(reply) ELSE xhrPost(reply)

\* JSON.parse(response) and the reading of the provider's envelope
ParseEnvelope(body) ==
    CASE body = "{error:{message:overloaded_error}}" ->
            [parsed |-> TRUE, error |-> "overloaded_error", text |-> ""]
      [] body = "{text:I cannot write that script.}" ->
            [parsed |-> TRUE, error |-> NULL, text |-> "I cannot write that script."]
      [] \E c \in Codes : body = "{text:" \o Fenced(c) \o "}" ->
            [parsed |-> TRUE, error |-> NULL,
             text |-> Fenced(CHOOSE c \in Codes : body = "{text:" \o Fenced(c) \o "}")]
      [] OTHER -> [parsed |-> FALSE, error |-> NULL, text |-> ""]

\* the fence of three backquotes, and the tags the pattern of extractCode names,
\* in the order of its alternation
FENCE == "'''"
TAGS == <<"javascript", "jsx", "extendscript">>

\* the n characters of s from position i on, or '' where s ends before
At(s, i, n) == IF i >= 1 /\ i + n - 1 <= Len(s) THEN SubSeq(s, i, i + n - 1) ELSE ""

\* String.prototype.indexOf from a position on, counted from 1; 0 stands for -1
IndexOf(s, sub, from) ==
    LET hits == {i \in from..(Len(s) - Len(sub) + 1) : SubSeq(s, i, i + Len(sub) - 1) = sub}
    IN  IF hits = {} THEN 0 ELSE CHOOSE i \in hits : \A j \in hits : i <= j

\* the characters \s matches and trim() strips
IsSpace(c) == c \in {" ", "\n", "\t", "\r"}

\* \s*\n? is greedy: the position of the first character from there on that is no space
SkipSpace(s, from) ==
    LET stops == {i \in from..Len(s) : ~IsSpace(SubSeq(s, i, i))}
    IN  IF stops = {} THEN Len(s) + 1 ELSE CHOOSE i \in stops : \A j \in stops : i <= j

\* String.prototype.trim
trim(s) ==
    LET ink == {i \in 1..Len(s) : ~IsSpace(SubSeq(s, i, i))}
    IN  IF ink = {} THEN ""
        ELSE SubSeq(s, CHOOSE i \in ink : \A j \in ink : i <= j,
                       CHOOSE i \in ink : \A j \in ink : i >= j)

\* extractCode: the pattern matches at the leftmost fence that has a fence after it; the
\* optional tag and the spaces after it are consumed greedily and the capture is lazy,
\* up to the next fence. An empty capture is falsy, and the function then goes on to
\* test the whole text for 'app.project' and 'var '.
extractCode(text) ==
    LET open == IndexOf(text, FENCE, 1)
        tags == {k \in 1..Len(TAGS) : At(text, open + 3, Len(TAGS[k])) = TAGS[k]}
        tag == IF tags = {} THEN "" ELSE TAGS[CHOOSE k \in tags : \A j \in tags : k <= j]
        start == SkipSpace(text, open + 3 + Len(tag))
        close == IndexOf(text, FENCE, start)
        captured == IF open = 0 \/ close = 0 THEN "" ELSE SubSeq(text, start, close - 1)
    IN  IF captured # "" THEN trim(captured)
        ELSE IF IndexOf(text, "app.project", 1) # 0 \/ IndexOf(text, "var ", 1) # 0
        THEN trim(text)
        ELSE ""

\* the texts a provider's envelope can hold here, and extractCode of each of them
ResponseTexts == {"", "I cannot write that script."} \cup {Fenced(c) : c \in Codes}

Extracted == [text \in ResponseTexts |-> extractCode(text)]

\* sendAnthropic / sendOpenAI / sendGoogle: httpPost(...).then(function (response) {...})
sendProvider(nodeAvailable, reply) ==
    LET post == httpPost(nodeAvailable, reply)
        data == ParseEnvelope(post.value)
    IN  IF post.state = "rejected" THEN Rejected(StringReason(post.value))
        ELSE IF ~data.parsed THEN Rejected(ErrorReason("Unexpected token < in JSON at position 0"))
        ELSE IF data.error # NULL THEN Resolved(FALSE, "", data.error)
        ELSE Resolved(TRUE, Extracted[data.text], NULL)

\* variant: the unknown provider falls into the first case of the switch
IsKnownProvider_Any(provider) == TRUE

\* the switch of sendPrompt has a case for the provider
IsKnownProvider(provider) == provider \in PROVIDERS

\* how the promise of sendPrompt settles, given what the network does
sendPromptSettles(provider, nodeAvailable, reply) ==
    IF IsKnownProvider(provider)
    THEN sendProvider(nodeAvailable, reply)
    ELSE Rejected(UnknownProviderReason(provider))

GenSettlements ==
    {sendPromptSettles(p, node, h) : p \in ProviderInputs, node \in BOOLEAN, h \in HttpReplies}

(***************************************************************************)
(* Replies of the host to csInterface.evalScript                           *)
(***************************************************************************)
EvalScript_ErrMessage == "EvalScript error."

HostReplies ==
    {EvalScript_ErrMessage,
     "{success:true,result:done}",
     "{success:false,error:undefined is not an object}",
     "{success:false,error:Unable to execute script at line 3}",
     "{success:false}",
     "null",
     "Result: plain text",
     ""}

ParseError == [success |-> FALSE, result |-> "SyntaxError", error |-> "SyntaxError", isObject |-> FALSE]
JsonNull == [success |-> FALSE, result |-> NULL, error |-> NULL, isObject |-> FALSE]

\* JSON.parse on the host replies above; an absent field reads as NULL
JSONparse(text) ==
    CASE text = "{success:true,result:done}" ->
            [success |-> TRUE, result |-> "done", error |-> NULL, isObject |-> TRUE]
      [] text = "{success:false,error:undefined is not an object}" ->
            [success |-> FALSE, result |-> NULL, error |-> "undefined is not an object", isObject |-> TRUE]
      [] text = "{success:false,error:Unable to execute script at line 3}" ->
            [success |-> FALSE, result |-> NULL, error |-> "Unable to execute script at line 3", isObject |-> TRUE]
      [] text = "{success:false}" ->
            [success |-> FALSE, result |-> NULL, error |-> NULL, isObject |-> TRUE]
      [] text = "null" -> JsonNull
      [] OTHER -> ParseError

\* variant: the error marker is not recognised and goes through JSON.parse
executeInAE_NoMarkerTest(reply) ==
    IF JSONparse(reply) = ParseError
    THEN [success |-> TRUE, result |-> reply, error |-> NULL, isObject |-> TRUE]
    ELSE JSONparse(reply)

\* variant: a reply that does not parse is reported as a failed execution
executeInAE_RawFails(reply) ==
    IF reply = "EvalScript error." \/ reply = EvalScript_ErrMessage
    THEN [success |-> FALSE, result |-> NULL,
          error |-> "ExtendScript evaluation error. The host script may not be loaded.",
          isObject |-> TRUE]
    ELSE IF JSONparse(reply) = ParseError
         THEN [success |-> FALSE, result |-> NULL, error |-> reply, isObject |-> TRUE]
         ELSE JSONparse(reply)

\* what the promise of executeInAE resolves to
executeInAE(reply) ==
    IF reply = "EvalScript error." \/ reply = EvalScript_ErrMessage
    THEN [success |-> FALSE, result |-> NULL,
          error |-> "ExtendScript evaluation error. The host script may not be loaded.",
          isObject |-> TRUE]
    ELSE IF JSONparse(reply) = ParseError
         THEN [success |-> TRUE, result |-> reply, error |-> NULL, isObject |-> TRUE]
         ELSE JSONparse(reply)

(***************************************************************************)
(* The pure parts of run()                                                 *)
(***************************************************************************)
\* variant: a non-positive maxRetries is clamped to 1 instead of defaulted
DefaultedMaxRetries_Clamped(opt) ==
    IF ~opt.given THEN DEFAULT_MAX_RETRIES
    ELSE IF opt.value <= 0 THEN 1 ELSE opt.value

\* var maxRetries = options.maxRetries || DEFAULT_MAX_RETRIES
DefaultedMaxRetries(opt) ==
    IF ~opt.given \/ opt.value = 0 THEN DEFAULT_MAX_RETRIES ELSE opt.value

\* variant: the status does not depend on the attempt
AttemptStatus_Constant(attemptIdx) == "generating"

\* isRetry ? 'retrying' : 'generating'
AttemptStatus(attemptIdx) ==
    IF attemptIdx > 0 THEN "retrying" ELSE "generating"

\* variant: off by one, attemptNum <= maxRetries
CanRetry_OffByOne(attemptNum, max) == attemptNum <= max

\* attemptNum < maxRetries
CanRetry(attemptNum, max) == attemptNum < max

Attempt(n, code, success, result, error) ==
    [attempt |-> n, code |-> code, success |-> success, result |-> result, error |-> error]

\* the record pushed when the generation result has success:false
GenerationFailedAttempt(n, aiResult) ==
    Attempt(n, "", FALSE, NULL, "AI generation failed: " \o aiResult.error)

\* the record pushed when the generation result carries no code
EmptyCodeAttempt(n) ==
    Attempt(n, "", FALSE, NULL, "AI response did not contain a code block.")

\* variant: the record of an executed attempt is always marked successful
ExecutedAttempt_AlwaysSuccess(n, code, execResult) ==
    Attempt(n, code, TRUE,
            IF execResult.result = "" THEN NULL ELSE execResult.result,
            IF execResult.error = "" THEN NULL ELSE execResult.error)

\* x || null on a text: the empty string is falsy
OrNull(x) == IF x = "" THEN NULL ELSE x

\* the record pushed when the host execution has answered
ExecutedAttempt(n, code, execResult) ==
    Attempt(n, code, execResult.success, OrNull(execResult.result), OrNull(execResult.error))

\* the record pushed by the .catch handler
CaughtAttempt(n, err) ==
    Attempt(n, "", FALSE, NULL, ErrorText(err))

\* 'label' + text, for a text of one or more lines
Prefixed(label, text) == <<label \o Head(text)>> \o Tail(text)

\* the retry prompt: the lines that buildRetryPrompt joins with '\n'
buildRetryPrompt(originalPrompt, failedCode, errorMessage) ==
    <<"The previous script failed with this error:",
      "",
      "ERROR: " \o errorMessage,
      "",
      "FAILED CODE:",
      "'''javascript",
      failedCode,
      "'''",
      "">>
    \o Prefixed("ORIGINAL REQUEST: ", originalPrompt)
    \o <<"",
         "Please fix the script. Remember: ExtendScript uses ES3 syntax only (var, not let/const; no arrow functions; no template literals).">>

\* variant: the retry prompt is built from the first attempt of the run
lastAttempt_First(atts) == atts[1]

\* var lastAttempt = attempts[attempts.length - 1]
lastAttempt(atts) == atts[Len(atts)]

NotGiven == [given |-> FALSE, value |-> <<>>]
Given(v) == [given |-> TRUE, value |-> v]

\* the options object executeAttempt hands to AIClient.sendPrompt
sendPromptOptions(opts, attemptIdx, atts) ==
    [prompt |-> IF attemptIdx > 0
                THEN buildRetryPrompt(opts.prompt, lastAttempt(atts).code, lastAttempt(atts).error)
                ELSE opts.prompt,
     provider |-> opts.provider,
     retryContext |-> NotGiven,
     history |-> NotGiven]

\* what sendPrompt makes of its options before the provider switch: the
\* history and retry context after defaulting, and the knowledge lookup
sendPrompt(n, callOptions, knowledgeReady) ==
    [n |-> n,
     prompt |-> callOptions.prompt,
     provider |-> callOptions.provider,
     history |-> IF callOptions.history.given THEN callOptions.history.value ELSE <<>>,
     retryContext |-> IF callOptions.retryContext.given THEN callOptions.retryContext.value
                                                        ELSE <<>>,
     retrieved |-> knowledgeReady,
     retrieveKey |-> IF knowledgeReady THEN callOptions.prompt ELSE <<>>]

\* variant: a failed generation is retried like empty code
AfterGeneration_RetriesFailure(aiResult, attemptNum, max) ==
    IF ~aiResult.success \/ aiResult.code = ""
    THEN (IF CanRetry(attemptNum, max) THEN "retry" ELSE "final")
    ELSE "execute"

\* variant: generated code is not executed, the next generation is requested at once
AfterGeneration_SkipsExecution(aiResult, attemptNum, max) ==
    IF ~aiResult.success THEN "final"
    ELSE IF CanRetry(attemptNum, max) THEN "retry"
    ELSE IF aiResult.code = "" THEN "final" ELSE "execute"

\* variant: empty code ends the run like a failed generation
AfterGeneration_EmptyIsFinal(aiResult, attemptNum, max) ==
    IF ~aiResult.success \/ aiResult.code = "" THEN "final" ELSE "execute"

\* what the then-callback does with the generation result
AfterGeneration(aiResult, attemptNum, max) ==
    IF ~aiResult.success THEN "final"
    ELSE IF aiResult.code = ""
         THEN (IF CanRetry(attemptNum, max) THEN "retry" ELSE "final")
         ELSE "execute"

\* variant: the budget test comes before the success test
AfterExecution_BudgetFirst(execResult, attemptNum, max) ==
    IF CanRetry(attemptNum, max) THEN "retry"
    ELSE IF execResult.success THEN "success" ELSE "final"

\* what the then-callback does with the execution result
AfterExecution(execResult, attemptNum, max) ==
    IF execResult.success THEN "success"
    ELSE IF CanRetry(attemptNum, max) THEN "retry" ELSE "final"

NoResult == [returned |-> FALSE, success |-> FALSE, attempts |-> <<>>, totalAttempts |-> 0,
             finalCode |-> NULL, finalResult |-> NULL, finalError |-> NULL]

\* variant: finalError is read from the first attempt
buildFinalResult_FirstError(atts, success) ==
    [returned |-> TRUE,
     success |-> success,
     attempts |-> atts,
     totalAttempts |-> Len(atts),
     finalCode |-> IF success THEN atts[Len(atts)].code ELSE NULL,
     finalResult |-> IF success THEN atts[Len(atts)].result ELSE NULL,
     finalError |-> IF ~success THEN atts[1].error ELSE NULL]

\* variant: the code of the last attempt is reported on failure too
buildFinalResult_CodeOnFailure(atts, success) ==
    [returned |-> TRUE,
     success |-> success,
     attempts |-> atts,
     totalAttempts |-> Len(atts),
     finalCode |-> atts[Len(atts)].code,
     finalResult |-> IF success THEN atts[Len(atts)].result ELSE NULL,
     finalError |-> IF ~success THEN atts[Len(atts)].error ELSE NULL]

buildFinalResult(atts, success) ==
    [returned |-> TRUE,
     success |-> success,
     attempts |-> atts,
     totalAttempts |-> Len(atts),
     finalCode |-> IF success THEN atts[Len(atts)].code ELSE NULL,
     finalResult |-> IF success THEN atts[Len(atts)].result ELSE NULL,
     finalError |-> IF ~success THEN atts[Len(atts)].error ELSE NULL]

(***************************************************************************)
(* The knowledge base (AEConjure.Knowledge): corpora                       *)
(***************************************************************************)
NoMember == ""

Atom(className, member, tags) == [className |-> className, member |-> member, tags |-> tags]

\* a recipe or a gotcha: a title (its words, as split(/\s+/) yields them) and tags
Titled(title, tags) == [title |-> title, tags |-> tags]

\* the corpus on disk or behind CORPUS_URL before a reload
CorpusA ==
    [version |-> "A",
     atoms |-> <<Atom("Layer", "name", <<"layer", "property">>),
                 Atom("LayerCollection", "addNull", <<"null", "layers">>),
                 Atom("Shape", NoMember, <<"shape">>)>>,
     recipes |-> <<Titled(<<"Create", "null", "layer">>, <<"null">>),
                   Titled(<<"Loop", "over", "layers">>, <<"layer">>),
                   Titled(<<"Shape", "layer", "path">>, <<"shape", "layer">>)>>,
     gotchas |-> <<Titled(<<"Null", "layer", "has", "no", "source">>, <<"source">>)>>]

\* the corpus a reload brings
CorpusB ==
    [version |-> "B",
     atoms |-> <<Atom("Layer", "name", <<"property">>),
                 Atom("Shape", NoMember, <<"shape">>)>>,
     recipes |-> <<>>,
     gotchas |-> <<Titled(<<"Shape", "layers", "need", "a", "group">>, <<"layers">>)>>]

Corpora == {CorpusA, CorpusB}

\* _corpus = null
NoCorpus == [version |-> "none", atoms |-> <<>>, recipes |-> <<>>, gotchas |-> <<>>]

\* String.prototype.toLowerCase on the words of the corpora and of the prompts
toLowerCase(w) ==
    CASE w = "Layer" -> "layer"
      [] w = "Layers" -> "layers"
      [] w = "LayerCollection" -> "layercollection"
      [] w = "Shape" -> "shape"
      [] w = "addNull" -> "addnull"
      [] w = "Create" -> "create"
      [] w = "Loop" -> "loop"
      [] w = "Null" -> "null"
      [] OTHER -> w

LowerAll(ws) == [i \in 1..Len(ws) |-> toLowerCase(ws[i])]

\* the keywords buildIndex collects for an atom, in the order it pushes them
AtomKeywords(atom) ==
    <<toLowerCase(atom.className)>>
        \o (IF atom.member # NoMember THEN <<toLowerCase(atom.member)>> ELSE <<>>)
        \o LowerAll(atom.tags)

\* the keywords buildIndex collects for a recipe or a gotcha
TitledKeywords(chunk) ==
    LowerAll(chunk.tags) \o SelectSeq(LowerAll(chunk.title), LAMBDA w : Len(w) > 3)

Ref(type, index) == [type |-> type, index |-> index]

\* one reference to the chunk for every time kw is among its keywords
RefsOf(type, index, keywords, kw) ==
    [k \in 1..Len(SelectSeq(keywords, LAMBDA w : w = kw)) |-> Ref(type, index)]

RECURSIVE RefsOver(_, _, _, _)
\* the references pushed under kw while forEach walks keyword lists i..Len
RefsOver(type, keywordLists, i, kw) ==
    IF i > Len(keywordLists) THEN <<>>
    ELSE RefsOf(type, i, keywordLists[i], kw) \o RefsOver(type, keywordLists, i + 1, kw)

Range(seq) == {seq[i] : i \in 1..Len(seq)}

\* buildIndex(): keyword -> references, for the corpus given
buildIndex(corpus) ==
    LET atomKw == [i \in 1..Len(corpus.atoms) |-> AtomKeywords(corpus.atoms[i])]
        recipeKw == [i \in 1..Len(corpus.recipes) |-> TitledKeywords(corpus.recipes[i])]
        gotchaKw == [i \in 1..Len(corpus.gotchas) |-> TitledKeywords(corpus.gotchas[i])]
        keywords == UNION ({Range(atomKw[i]) : i \in 1..Len(atomKw)}
                            \cup {Range(recipeKw[i]) : i \in 1..Len(recipeKw)}
                            \cup {Range(gotchaKw[i]) : i \in 1..Len(gotchaKw)})
    IN  [kw \in keywords |->
            RefsOver("atom", atomKw, 1, kw)
                \o RefsOver("recipe", recipeKw, 1, kw)
                \o RefsOver("gotcha", gotchaKw, 1, kw)]

\* _index = {}
EmptyIndex == [kw \in {} |-> <<>>]

(***************************************************************************)
(* The knowledge base: retrieve                                            *)
(***************************************************************************)
STOP_WORDS ==
    {"the", "and", "for", "that", "with", "this", "from", "have", "all", "can", "will",
     "make", "like", "just", "want", "need", "get", "set", "use", "add", "new", "each",
     "how", "its"}

MIN_SCORE == 3

DEFAULT_MAX_ATOMS == 5
DEFAULT_MAX_RECIPES == 2
DEFAULT_MAX_GOTCHAS == 3

\* the words of a sequence without their later repetitions (the seen[] filter)
Deduplicated(ws) ==
    LET firsts == SelectSeq([i \in 1..Len(ws) |-> i],
                            LAMBDA i : \A j \in 1..(i - 1) : ws[j] # ws[i])
    IN  [k \in 1..Len(firsts) |-> ws[firsts[k]]]

\* the query tokens of a prompt, the prompt being given as the words that
\* replace(/[^a-z0-9\s]/g, ' ').split(/\s+/) would cut it into, case kept
Tokens(prompt) ==
    Deduplicated(SelectSeq(LowerAll(prompt), LAMBDA w : Len(w) > 2 /\ w \notin STOP_WORDS))

\* kw.indexOf(word) === 0 && kw !== word
IsStrictPrefix(word, kw) ==
    /\ kw # word
    /\ Len(kw) >= Len(word)
    /\ SubSeq(kw, 1, Len(word)) = word

\* how often a list of references names the chunk
Hits(refs, type, i) == Len(SelectSeq(refs, LAMBDA ref : ref.type = type /\ ref.index = i))

RECURSIVE SumOver(_, _)
\* the sum of a function over a finite part of its domain
SumOver(f, S) ==
    IF S = {} THEN 0
    ELSE LET x == CHOOSE x \in S : TRUE IN f[x] + SumOver(f, S \ {x})

\* what one query token adds to the score of a chunk
TokenScore(index, word, type, i) ==
    (IF word \in DOMAIN index THEN 3 * Hits(index[word], type, i) ELSE 0)
        + SumOver([kw \in DOMAIN index |->
                      IF IsStrictPrefix(word, kw) THEN Hits(index[kw], type, i) ELSE 0],
                  DOMAIN index)

\* atomScores / recipeScores / gotchaScores after the words.forEach loop; a chunk
\* without an entry in the map reads 0 here
Scores(index, words, type, count) ==
    [i \in 1..count |->
        SumOver([k \in 1..Len(words) |-> TokenScore(index, words[k], type, i)],
                1..Len(words))]

\* variant: the threshold is exclusive
topN_Exclusive(scoreMap, n, minScore) ==
    LET keys == {k \in DOMAIN scoreMap : scoreMap[k] > minScore}
        rank(k) == 1 + Cardinality({j \in keys : scoreMap[j] > scoreMap[k]
                                                    \/ (scoreMap[j] = scoreMap[k] /\ j < k)})
        kept == IF Cardinality(keys) < n THEN Cardinality(keys) ELSE n
    IN  [p \in 1..kept |-> CHOOSE k \in keys : rank(k) = p]

\* topN(scoreMap, n, minScore): the keys at or above minScore, by score descending
\* (Object.keys lists integer keys in ascending order and the sort keeps ties in
\* that order), cut to the first n
topN(scoreMap, n, minScore) ==
    LET keys == {k \in DOMAIN scoreMap : scoreMap[k] >= minScore}
        rank(k) == 1 + Cardinality({j \in keys : scoreMap[j] > scoreMap[k]
                                                    \/ (scoreMap[j] = scoreMap[k] /\ j < k)})
        kept == IF Cardinality(keys) < n THEN Cardinality(keys) ELSE n
    IN  [p \in 1..kept |-> CHOOSE k \in keys : rank(k) = p]

\* options.maxAtoms || 5, and likewise for the other types
Limit(opt, default) == IF ~opt.given \/ opt.value = 0 THEN default ELSE opt.value

\* the line retrieve prints for an atom
AtomLine(atom) ==
    atom.className \o (IF atom.member # NoMember THEN "." \o atom.member ELSE "")

RECURSIVE Joined(_, _)
\* words.join(sep)
Joined(ws, sep) ==
    IF Len(ws) = 0 THEN ""
    ELSE IF Len(ws) = 1 THEN ws[1]
    ELSE ws[1] \o sep \o Joined(Tail(ws), sep)

\* variant: the section labels are printed whether or not a chunk was selected
Formatted_Shell(corpus, topAtoms, topRecipes, topGotchas) ==
    <<"=== API ===">>
        \o [p \in 1..Len(topAtoms) |-> AtomLine(corpus.atoms[topAtoms[p]])]
        \o <<"", "=== PATTERNS ===">>
        \o [p \in 1..Len(topRecipes) |-> Joined(corpus.recipes[topRecipes[p]].title, " ") \o ":"]
        \o <<"", "=== AVOID ===">>
        \o [p \in 1..Len(topGotchas) |-> "- " \o Joined(corpus.gotchas[topGotchas[p]].title, " ")]

\* the parts array of retrieve, one element per line of the text returned
Formatted(corpus, topAtoms, topRecipes, topGotchas) ==
    (IF Len(topAtoms) > 0
     THEN <<"=== API ===">> \o [p \in 1..Len(topAtoms) |-> AtomLine(corpus.atoms[topAtoms[p]])]
     ELSE <<>>)
    \o (IF Len(topRecipes) > 0
        THEN <<"", "=== PATTERNS ===">>
                 \o [p \in 1..Len(topRecipes) |->
                        Joined(corpus.recipes[topRecipes[p]].title, " ") \o ":"]
        ELSE <<>>)
    \o (IF Len(topGotchas) > 0
        THEN <<"", "=== AVOID ===">>
                 \o [p \in 1..Len(topGotchas) |->
                        "- " \o Joined(corpus.gotchas[topGotchas[p]].title, " ")]
        ELSE <<>>)

\* the module state: _corpus, _ready, _loading, _index
Module(corpus, ready, loading, index) ==
    [corpus |-> corpus, ready |-> ready, loading |-> loading, index |-> index]

NoScores == [atom |-> <<>>, recipe |-> <<>>, gotcha |-> <<>>]

\* variant: the call uses the index up
retrieve_Consuming(k, prompt, opts) ==
    IF ~k.ready \/ k.corpus = NoCorpus
    THEN [text |-> <<>>, scores |-> NoScores, top |-> NoScores, state |-> k]
    ELSE LET words == Tokens(prompt)
             scores == [atom |-> Scores(k.index, words, "atom", Len(k.corpus.atoms)),
                        recipe |-> Scores(k.index, words, "recipe", Len(k.corpus.recipes)),
                        gotcha |-> Scores(k.index, words, "gotcha", Len(k.corpus.gotchas))]
             top == [atom |-> topN(scores.atom, Limit(opts.maxAtoms, DEFAULT_MAX_ATOMS),
                                   MIN_SCORE),
                     recipe |-> topN(scores.recipe,
                                     Limit(opts.maxRecipes, DEFAULT_MAX_RECIPES), MIN_SCORE),
                     gotcha |-> topN(scores.gotcha,
                                     Limit(opts.maxGotchas, DEFAULT_MAX_GOTCHAS), MIN_SCORE)]
         IN  [text |-> Formatted(k.corpus, top.atom, top.recipe, top.gotcha),
              scores |-> scores, top |-> top, state |-> [k EXCEPT !.index = EmptyIndex]]

\* retrieve(prompt, opts) against the module state k: the text returned, the
\* score maps and the selections it went through, and the module state it leaves
retrieve(k, prompt, opts) ==
    IF ~k.ready \/ k.corpus = NoCorpus
    THEN [text |-> <<>>, scores |-> NoScores, top |-> NoScores, state |-> k]
    ELSE LET words == Tokens(prompt)
             scores == [atom |-> Scores(k.index, words, "atom", Len(k.corpus.atoms)),
                        recipe |-> Scores(k.index, words, "recipe", Len(k.corpus.recipes)),
                        gotcha |-> Scores(k.index, words, "gotcha", Len(k.corpus.gotchas))]
             top == [atom |-> topN(scores.atom, Limit(opts.maxAtoms, DEFAULT_MAX_ATOMS),
                                   MIN_SCORE),
                     recipe |-> topN(scores.recipe,
                                     Limit(opts.maxRecipes, DEFAULT_MAX_RECIPES), MIN_SCORE),
                     gotcha |-> topN(scores.gotcha,
                                     Limit(opts.maxGotchas, DEFAULT_MAX_GOTCHAS), MIN_SCORE)]
         IN  [text |-> Formatted(k.corpus, top.atom, top.recipe, top.gotcha),
              scores |-> scores, top |-> top, state |-> k]

(***************************************************************************)
(* State                                                                   *)
(***************************************************************************)
VARIABLES
    options,       \* per run: the options object given to run()
    pc,            \* per run: where the promise chain stands
    maxRetries,    \* per run: the local maxRetries of run()
    attempts,      \* per run: the local attempts array of run()
    attemptIndex,  \* per run: attemptIndex of the executeAttempt frame in progress
    pending,       \* per run: aiResult held by the then-callback while the host executes
    runResult,     \* per run: the value the promise of run() resolved to
    events,        \* per run: the calls made and the settlements seen, in order
    requests,      \* per run: what each sendPrompt call received and looked up
    env,           \* the panel's runtime: Node available, knowledge index loaded
    aiStub,        \* what the network does with the n-th provider request, once decided
    hostStub       \* what the host replies to the n-th attempt's script, once decided

engineVars == <<options, pc, maxRetries, attempts, attemptIndex, pending, runResult,
                events, requests, env, aiStub, hostStub>>

(***************************************************************************)
(* State of the panel's transcript (main.js as listed in src/README.md)    *)
(***************************************************************************)
VARIABLES
    chatHistory,   \* the chatHistory array of the panel
    historyCall    \* the last buildConversationHistory call: its argument, the
                   \* transcript it read and its result

historyVars == <<chatHistory, historyCall>>

(***************************************************************************)
(* State of the knowledge base (AEConjure.Knowledge)                       *)
(***************************************************************************)
VARIABLES
    knowledge,     \* the module variables _corpus, _ready, _loading, _index
    disk,          \* the corpus cached in knowledge.json, if any
    inFlight,      \* the downloads started and not yet answered, oldest first
    lastRetrieve,  \* the last retrieve call: its arguments, what it went through
                   \* and what it returned
    lastInit,      \* the last init() call: the state it found, what it did and
                   \* what its promise resolved to
    answered       \* the download answered last, and whether an update() has
                   \* failed with nothing loaded since

knowledgeVars == <<knowledge, disk, inFlight, lastRetrieve, lastInit, answered>>

(***************************************************************************)
(* State of the panel's Run handling (main.js as listed in src/README.md)  *)
(***************************************************************************)
VARIABLES
    isProcessing,  \* the isProcessing flag of the panel
    chains,        \* the promise chains handleRun has built, oldest first, each
                   \* with the stage it has reached
    submissions,   \* the Run clicks and Enter presses so far: the prompt, whether
                   \* isProcessing was set, and what handleRun did
    sideCalls      \* the library scripts and explain requests of the panel: how many
                   \* were started, and how many of each kind wait for their answer

panelVars == <<isProcessing, chains, submissions, sideCalls>>

(***************************************************************************)
(* State of the host side (host/execute.jsx)                               *)
(***************************************************************************)
VARIABLES
    scriptCall     \* an executeScript call: its arguments, what the host does with
                   \* them, the undo calls made and what the caller got back

scriptVars == <<scriptCall>>

(***************************************************************************)
(* A call of extractCode on its own (client/js/ai-client.js)               *)
(***************************************************************************)
VARIABLES
    extraction     \* an extractCode call: the response it was given, piece by
                   \* piece and as the text the function sees, and what it returned

extractVars == <<extraction>>

\* everything the retry engine does not touch
outsideEngine == <<historyVars, knowledgeVars, panelVars, scriptVars, extractVars>>

\* everything the transcript operations do not touch
outsideHistory == <<engineVars, knowledgeVars, panelVars, scriptVars, extractVars>>

\* everything the knowledge base does not touch
outsideKnowledge == <<engineVars, historyVars, panelVars, scriptVars, extractVars>>

\* everything handleRun and its promise chain do not touch
outsidePanel == <<engineVars, historyCall, knowledgeVars, scriptVars, extractVars>>

\* everything executeScript does not touch
outsideScript == <<engineVars, historyVars, knowledgeVars, panelVars, extractVars>>

\* everything extractCode does not touch
outsideExtract == <<engineVars, historyVars, knowledgeVars, panelVars, scriptVars>>

\* the limits a caller of retrieve may pass for one type: omitted, zero, a count
MaxLimit == 2

LimitInputs ==
    {[given |-> FALSE, value |-> 0]} \cup {[given |-> TRUE, value |-> v] : v \in 0..MaxLimit}

RetrieveOptions == [maxAtoms : LimitInputs, maxRecipes : LimitInputs, maxGotchas : LimitInputs]

\* the prompts retrieve is called with, as the words they are cut into
RetrievePrompts ==
    {<<"add", "a", "null", "layer">>,
     <<"Layer", "layer">>,
     <<"layer", "shape", "null">>,
     <<"lay">>,
     <<"null", "shape">>,
     <<"the", "to">>}

\* the prompts and the options of the retrieve calls looked at while the
\* corpus is loaded and reloaded
ReloadPrompts == {<<"layer">>, <<"lay">>}

DefaultOptions ==
    [maxAtoms |-> [given |-> FALSE, value |-> 0],
     maxRecipes |-> [given |-> FALSE, value |-> 0],
     maxGotchas |-> [given |-> FALSE, value |-> 0]]

\* downloads that may be unanswered at the same time
MaxInFlight == 2

\* calls of retrieve that are told apart: the first, the second, ...
MaxCalls == 2

NoRetrieve ==
    [called |-> FALSE, n |-> 0, prompt |-> <<>>, opts |-> DefaultOptions,
     before |-> Module(NoCorpus, FALSE, FALSE, EmptyIndex),
     text |-> <<>>, scores |-> NoScores, top |-> NoScores, previous |-> <<>>]

NoInit ==
    [called |-> FALSE, ready |-> FALSE, loading |-> FALSE, pending |-> 0,
     returned |-> FALSE, settled |-> TRUE, diskRead |-> FALSE, started |-> 0]

NoAnswer == [called |-> FALSE, by |-> "init", ok |-> FALSE, late |-> FALSE, failedUpdate |-> FALSE]

\* no call of retrieve or init() on record, no download answered
NothingOnRecord ==
    /\ lastRetrieve = NoRetrieve
    /\ lastInit = NoInit
    /\ answered = NoAnswer

\* nothing loaded, nothing cached, nothing requested
KnowledgeAtRest ==
    /\ knowledge = Module(NoCorpus, FALSE, FALSE, EmptyIndex)
    /\ disk = NoCorpus
    /\ inFlight = <<>>
    /\ NothingOnRecord

\* what a download is answered with: a socket error, a status other than 200,
\* a body that is not JSON, or a body that is: a corpus, or the text null,
\* which JSON.parse turns into null
DownloadReplies ==
    {[kind |-> "error", status |-> 0, corpus |-> NoCorpus],
     [kind |-> "response", status |-> 404, corpus |-> NoCorpus],
     [kind |-> "unparseable", status |-> 200, corpus |-> NoCorpus]}
        \cup {[kind |-> "response", status |-> 200, corpus |-> c] :
                 c \in Corpora \cup {NoCorpus}}

\* the body was received with status 200 and parsed
Parsed(reply) == reply.kind = "response" /\ reply.status = 200

\* download(): _loading = true and a request on the wire; started records who
\* asked and the corpus that was loaded when they asked
download(k) == [k EXCEPT !.loading = TRUE]

\* loadFromDisk(): the module state it leaves, or the same state when there is
\* nothing usable on disk
loadFromDisk(k, file) ==
    IF file # NoCorpus
    THEN [k EXCEPT !.corpus = file, !.ready = TRUE, !.index = buildIndex(file)]
    ELSE k

\* variant: the corpus in place is kept until another one arrives
update_KeepsOld(k) == download(k)

\* update(): clear, then download
update(k) ==
    download([k EXCEPT !.ready = FALSE, !.corpus = NoCorpus, !.index = EmptyIndex])

\* variant: the corpus is swapped and the index left as it was
handleResponse_KeepsIndex(k, reply) ==
    IF Parsed(reply)
    THEN [k EXCEPT !.loading = FALSE, !.corpus = reply.corpus, !.ready = TRUE]
    ELSE [k EXCEPT !.loading = FALSE]

\* the 'end' handler of handleResponse, and handleError
handleResponse(k, reply) ==
    IF Parsed(reply)
    THEN [k EXCEPT !.loading = FALSE, !.corpus = reply.corpus, !.ready = TRUE,
                   !.index = buildIndex(reply.corpus)]
    ELSE [k EXCEPT !.loading = FALSE]

\* a download on the wire: who started it, whether a download started after it
\* has installed its corpus, and whether anything has been loaded since it was
\* started
Download(by) == [by |-> by, overtaken |-> FALSE, restored |-> FALSE]

\* the record of the download answered in the step before, cleared by a step
\* that answers none; what is known of failed updates stays
NoneAnswered(failedUpdate) == [NoAnswer EXCEPT !.failedUpdate = failedUpdate]

\* init(): the early returns, the cache, the download
KnowledgeInit ==
    LET fromDisk == loadFromDisk(knowledge, disk)
        call(returned, settled, diskRead, started) ==
            [called |-> TRUE, ready |-> knowledge.ready, loading |-> knowledge.loading,
             pending |-> Len(inFlight), returned |-> returned, settled |-> settled,
             diskRead |-> diskRead, started |-> started]
    IN
    /\ IF knowledge.ready
       THEN /\ lastInit' = call(TRUE, TRUE, FALSE, 0)
            /\ UNCHANGED <<knowledge, inFlight>>
       ELSE IF knowledge.loading
       THEN /\ lastInit' = call(FALSE, TRUE, FALSE, 0)
            /\ UNCHANGED <<knowledge, inFlight>>
       ELSE IF fromDisk.ready
       THEN /\ lastInit' = call(TRUE, TRUE, TRUE, 0)
            /\ knowledge' = fromDisk
            /\ inFlight' = [i \in 1..Len(inFlight) |-> [inFlight[i] EXCEPT !.restored = TRUE]]
       ELSE /\ Len(inFlight) < MaxInFlight
            /\ lastInit' = call(FALSE, FALSE, TRUE, 1)
            /\ knowledge' = download(knowledge)
            /\ inFlight' = Append(inFlight, Download("init"))
    /\ answered' = NoneAnswered(IF ~knowledge.ready /\ ~knowledge.loading /\ fromDisk.ready
                                THEN FALSE
                                ELSE answered.failedUpdate)
    /\ UNCHANGED <<disk, lastRetrieve, outsideKnowledge>>

\* update()
KnowledgeUpdate ==
    /\ Len(inFlight) < MaxInFlight
    /\ knowledge' = update(knowledge)
    /\ inFlight' = Append(inFlight, Download("update"))
    /\ lastInit' = NoInit
    /\ answered' = NoneAnswered(answered.failedUpdate)
    /\ UNCHANGED <<disk, lastRetrieve, outsideKnowledge>>

\* a download is answered: handleResponse ('end') or handleError runs, and on a
\* parsed body saveToDisk writes the cache
DownloadAnswered ==
    \E i \in 1..Len(inFlight), reply \in DownloadReplies :
        LET others == SubSeq(inFlight, 1, i - 1) \o SubSeq(inFlight, i + 1, Len(inFlight)) IN
        /\ knowledge' = handleResponse(knowledge, reply)
        /\ disk' = IF Parsed(reply) THEN reply.corpus ELSE disk
        /\ inFlight' =
               [j \in 1..Len(others) |->
                   IF Parsed(reply)
                   THEN [others[j] EXCEPT !.restored = TRUE, !.overtaken = @ \/ j < i]
                   ELSE others[j]]
        /\ answered' =
               [called |-> TRUE, by |-> inFlight[i].by, ok |-> Parsed(reply),
                late |-> Parsed(reply) /\ inFlight[i].overtaken,
                failedUpdate |->
                    IF Parsed(reply) THEN FALSE
                    ELSE answered.failedUpdate
                           \/ (inFlight[i].by = "update" /\ ~inFlight[i].restored)]
        /\ lastInit' = NoInit
        /\ UNCHANGED <<lastRetrieve, outsideKnowledge>>

\* retrieve(prompt, opts) with arguments from the given sets; the record kept
\* of the call counts the calls made in a row with the same arguments against
\* the same corpus and keeps what the one before returned
RetrieveAmong(prompts, optionSets) ==
    \E prompt \in prompts, opts \in optionSets :
        LET call == retrieve(knowledge, prompt, opts)
            repeated == /\ lastRetrieve.called
                        /\ lastRetrieve.prompt = prompt
                        /\ lastRetrieve.opts = opts
                        /\ lastRetrieve.before.corpus = knowledge.corpus
                        /\ lastRetrieve.before.ready = knowledge.ready
        IN
        /\ knowledge' = call.state
        /\ lastRetrieve' =
               [called |-> TRUE,
                n |-> IF repeated
                      THEN (IF lastRetrieve.n < MaxCalls THEN lastRetrieve.n + 1 ELSE MaxCalls)
                      ELSE 1,
                prompt |-> prompt, opts |-> opts, before |-> knowledge,
                text |-> call.text, scores |-> call.scores, top |-> call.top,
                previous |-> IF repeated THEN lastRetrieve.text ELSE <<>>]
        /\ UNCHANGED <<disk, inFlight, lastInit, answered, outsideKnowledge>>

\* retrieve called on a module state that stays as it is, and called again
\* with the same arguments
Retrieve ==
    /\ lastRetrieve.n < MaxCalls
    /\ RetrieveAmong(IF lastRetrieve.called THEN {lastRetrieve.prompt} ELSE RetrievePrompts,
                     IF lastRetrieve.called THEN {lastRetrieve.opts} ELSE RetrieveOptions)

NextKnowledge == KnowledgeInit \/ KnowledgeUpdate \/ DownloadAnswered

\* the module with corpus c loaded, as handleResponse and loadFromDisk leave it
Loaded(c) == Module(c, TRUE, FALSE, buildIndex(c))

NextRetrieve == Retrieve

vars == <<engineVars, outsideEngine>>

(***************************************************************************)
(* The conversation history slice (main.js, buildConversationHistory)      *)
(***************************************************************************)
\* bounds of the transcripts and of the maxTurns arguments explored
MaxTranscript == 4
MaxTurns == 2

DEFAULT_TURNS == 6

ROLES == {"user", "assistant", "system"}

\* the maxTurns argument: omitted, negative, zero, small, the default
MaxTurnsInputs ==
    {[given |-> FALSE, value |-> 0]}
        \cup {[given |-> TRUE, value |-> v] : v \in {-1, DEFAULT_TURNS} \cup (0..MaxTurns)}

Last(seq) == seq[Len(seq)]

\* array.slice(-n) for n > 0
SliceLast(seq, n) ==
    IF Len(seq) <= n THEN seq ELSE SubSeq(seq, Len(seq) - n + 1, Len(seq))

\* variant: the entry pushed last is kept
buildConversationHistory_KeepsLast(chat, maxTurns) ==
    LET turns == IF ~maxTurns.given \/ maxTurns.value = 0 THEN DEFAULT_TURNS ELSE maxTurns.value
        relevant == SelectSeq(chat, LAMBDA msg : msg.role = "user" \/ msg.role = "assistant")
    IN  IF turns <= 0 THEN <<>> ELSE SliceLast(relevant, turns)

\* buildConversationHistory(maxTurns) over the chatHistory given
buildConversationHistory(chat, maxTurns) ==
    LET turns == IF ~maxTurns.given \/ maxTurns.value = 0 THEN DEFAULT_TURNS ELSE maxTurns.value
        relevant == SelectSeq(chat, LAMBDA msg : msg.role = "user" \/ msg.role = "assistant")
        earlier == IF Len(relevant) > 0 THEN SubSeq(relevant, 1, Len(relevant) - 1) ELSE relevant
    IN  IF turns <= 0 THEN <<>> ELSE SliceLast(earlier, turns)

NoHistoryCall ==
    [called |-> FALSE, maxTurns |-> [given |-> FALSE, value |-> 0], transcript |-> <<>>,
     result |-> <<>>]

HistoryAtRest ==
    /\ chatHistory = <<>>
    /\ historyCall = NoHistoryCall

\* chatHistory.push({ role: role, content: content }); the content tells the entries apart
addMessage(chat, role) ==
    Append(chat, [role |-> role, content |-> "message " \o ToString(Len(chat) + 1)])

AddMessage(role) ==
    /\ Len(chatHistory) < MaxTranscript
    /\ chatHistory' = addMessage(chatHistory, role)
    /\ UNCHANGED <<historyCall, outsideHistory>>

\* a call of buildConversationHistory(maxTurns)
BuildConversationHistory(maxTurns) ==
    /\ historyCall' = [called |-> TRUE, maxTurns |-> maxTurns, transcript |-> chatHistory,
                       result |-> buildConversationHistory(chatHistory, maxTurns)]
    /\ UNCHANGED <<chatHistory, outsideHistory>>

(***************************************************************************)
(* The panel: handleRun and the promise chain it builds                    *)
(***************************************************************************)
\* Run clicks and Enter presses explored
MaxSubmissions == 3

\* what the prompt input holds when Run is pressed (trimmed), and the API key
\* stored for the provider selected
PanelPrompts == {"", "/clear", "make a null"}
ApiKeys == {"", "sk-key"}

\* library scripts run and explanations asked for, together
MaxSideCalls == 1

\* settings.conversationTurns: not set, or a count
ConversationTurns == {[given |-> FALSE, value |-> 0], [given |-> TRUE, value |-> 1]}

\* what RetryEngine.run() settles with, as the handlers of the chain tell it apart,
\* and whether the then(result) handler then raises while it renders the result
RunOutcomes == {"success", "failure", "failure with code", "rejected"}

NoSideCalls == [made |-> 0, library |-> 0, explain |-> 0]

PanelAtRest ==
    /\ isProcessing = FALSE
    /\ chains = <<>>
    /\ submissions = <<>>
    /\ sideCalls = NoSideCalls

\* variant: only an empty prompt is dropped
handleRunReturns_EmptyOnly(prompt, processing) == prompt = ""

\* if (!prompt || isProcessing) return;
handleRunReturns(prompt, processing) == prompt = "" \/ processing

\* prompt.charAt(0) === '/'
IsCommand(prompt) == Len(prompt) > 0 /\ SubSeq(prompt, 1, 1) = "/"

Submission(prompt, outcome) ==
    [prompt |-> prompt, during |-> isProcessing, outcome |-> outcome]

\* a promise chain of handleRun: the stage it has reached, the retries whose code
\* was shown, the chatHistory entry of its prompt, the history handed to run(), and
\* whether its catch handler ran
Chain(prompt, entry) ==
    [prompt |-> prompt, stage |-> "context", shown |-> 0, entry |-> entry,
     handed |-> FALSE, history |-> <<>>, caught |-> FALSE]

\* handleRun(): a Run click or an Enter press
HandleRun ==
    \E prompt \in PanelPrompts, apiKey \in ApiKeys :
        /\ Len(submissions) < MaxSubmissions
        /\ IF handleRunReturns(prompt, isProcessing)
           THEN /\ submissions' = Append(submissions, Submission(prompt, "dropped"))
                /\ UNCHANGED <<isProcessing, chains, chatHistory>>
           ELSE IF IsCommand(prompt)
           THEN \* handleCommand('/clear')
                /\ submissions' = Append(submissions, Submission(prompt, "command"))
                /\ chatHistory' = <<>>
                /\ UNCHANGED <<isProcessing, chains>>
           ELSE IF apiKey = ""
           THEN /\ submissions' = Append(submissions, Submission(prompt, "no key"))
                /\ UNCHANGED <<isProcessing, chains, chatHistory>>
           ELSE /\ submissions' = Append(submissions, Submission(prompt, "started"))
                /\ isProcessing' = TRUE
                /\ chatHistory' = addMessage(chatHistory, "user")
                /\ chains' = Append(chains, Chain(prompt, Last(addMessage(chatHistory, "user"))))
        /\ UNCHANGED <<sideCalls, outsidePanel>>

\* compContextPromise.then: RetryEngine.run() is called with
\* history: buildConversationHistory(settings.conversationTurns)
ContextResolves ==
    \E i \in 1..Len(chains), turns \in ConversationTurns :
        /\ chains[i].stage = "context"
        /\ chains' = [chains EXCEPT ![i].stage = "running", ![i].handed = TRUE,
                                    ![i].history = buildConversationHistory(chatHistory, turns)]
        /\ UNCHANGED <<isProcessing, submissions, sideCalls, chatHistory, outsidePanel>>

\* onCode of a retry (attemptNum > 1): the code is shown in the chat; a run
\* makes at most DEFAULT_MAX_RETRIES attempts with the panel's settings
CodeShown ==
    \E i \in 1..Len(chains) :
        /\ chains[i].stage = "running"
        /\ chains[i].shown < DEFAULT_MAX_RETRIES - 1
        /\ chains' = [chains EXCEPT ![i].shown = @ + 1, ![i].handed = FALSE, ![i].history = <<>>]
        /\ chatHistory' = addMessage(chatHistory, "assistant")
        /\ UNCHANGED <<isProcessing, submissions, sideCalls, outsidePanel>>

\* variant: the last handler is skipped after a rejection
HandlersRun_ThenOnly(outcome, renderThrows) ==
    IF outcome = "rejected" THEN <<"catch">>
    ELSE IF renderThrows THEN <<"then", "catch">>
    ELSE <<"then", "last">>

\* .then(result).catch(err).then(): the handlers that run once run() has settled.
\* The catch handler gets an Error or a string and returns, so the last handler
\* runs after it.
HandlersRun(outcome, renderThrows) ==
    IF outcome = "rejected" THEN <<"catch", "last">>
    ELSE IF renderThrows THEN <<"then", "catch", "last">>
    ELSE <<"then", "last">>

\* the messages the handlers add: then(result) adds one, two for a failure that has
\* code, or none when it raises before the first; the catch handler adds one
Rendered(chat, outcome, renderThrows) ==
    IF outcome = "rejected" \/ renderThrows THEN addMessage(chat, "assistant")
    ELSE IF outcome = "failure with code"
    THEN addMessage(addMessage(chat, "assistant"), "assistant")
    ELSE addMessage(chat, "assistant")

\* the run settles: the then(result) handler or the catch handler runs, or both
RunSettles ==
    \E i \in 1..Len(chains), outcome \in RunOutcomes, renderThrows \in BOOLEAN :
        /\ chains[i].stage = "running"
        /\ chains' = [chains EXCEPT
                         ![i].stage = IF Last(HandlersRun(outcome, renderThrows)) = "last"
                                      THEN "settled" ELSE "abandoned",
                         ![i].handed = FALSE, ![i].history = <<>>,
                         ![i].caught = \E k \in 1..Len(HandlersRun(outcome, renderThrows)) :
                                          HandlersRun(outcome, renderThrows)[k] = "catch"]
        /\ chatHistory' = Rendered(chatHistory, outcome, renderThrows)
        /\ UNCHANGED <<isProcessing, submissions, sideCalls, outsidePanel>>

\* the last then of the chain: isProcessing = false
ChainEnds ==
    \E i \in 1..Len(chains) :
        /\ chains[i].stage = "settled"
        /\ chains' = [chains EXCEPT ![i].stage = "done"]
        /\ isProcessing' = FALSE
        /\ UNCHANGED <<submissions, sideCalls, chatHistory, outsidePanel>>

\* runLibraryScript(script): not held back by isProcessing
RunLibraryScript ==
    /\ sideCalls.made < MaxSideCalls
    /\ sideCalls' = [sideCalls EXCEPT !.made = @ + 1, !.library = @ + 1]
    /\ chatHistory' = addMessage(chatHistory, "user")
    /\ UNCHANGED <<isProcessing, chains, submissions, outsidePanel>>

\* the evalScript callback of runLibraryScript: each of its branches adds a message
LibraryScriptAnswered ==
    /\ sideCalls.library > 0
    /\ sideCalls' = [sideCalls EXCEPT !.library = @ - 1]
    /\ chatHistory' = addMessage(chatHistory, "assistant")
    /\ UNCHANGED <<isProcessing, chains, submissions, outsidePanel>>

\* handleExplain(code) with an API key set: addSystemMessage leaves chatHistory alone
HandleExplain ==
    /\ sideCalls.made < MaxSideCalls
    /\ sideCalls' = [sideCalls EXCEPT !.made = @ + 1, !.explain = @ + 1]
    /\ UNCHANGED <<isProcessing, chains, submissions, chatHistory, outsidePanel>>

\* explainCode settles: the explanation is added, or a toast is shown
ExplainAnswered ==
    \E explained \in BOOLEAN :
        /\ sideCalls.explain > 0
        /\ sideCalls' = [sideCalls EXCEPT !.explain = @ - 1]
        /\ chatHistory' = IF explained THEN addMessage(chatHistory, "assistant") ELSE chatHistory
        /\ UNCHANGED <<isProcessing, chains, submissions, outsidePanel>>

(***************************************************************************)
(* The host: executeScript(code, label)                                    *)
(***************************************************************************)
DEFAULT_LABEL == "AE Conjure"

\* the label argument: omitted or given
Labels == {"", "Blur layers"}

\* what eval(code) does. It returns a value: undefined, an object (whose
\* JSON.stringify gives a text, gives undefined as for an object with a toJSON
\* that returns nothing, or throws as for a cyclic object, and whose toString
\* gives a text or throws), or a primitive. Or it throws: an Error-like value
\* with or without line, message and source, or a value without toString
\* (throw null, throw undefined).
Evaluation(kind, type, json, str, line, message, source) ==
    [kind |-> kind, type |-> type, json |-> json, str |-> str,
     line |-> line, message |-> message, source |-> source]

Evaluations ==
    {Evaluation("returns", "undefined", "none", "none", -1, "", "")}
        \cup {Evaluation("returns", "primitive", "none", "text", -1, "", "")}
        \cup {Evaluation("returns", "object", j, t, -1, "", "") :
                 j \in {"text", "undefined", "throws"}, t \in {"text", "throws"}}
        \cup {Evaluation("throws", "error", "none", "text", l, m, src) :
                 l \in {-1, 7}, m \in {"", "boom"}, src \in {"", "x.y()"}}
        \cup {Evaluation("throws", "nullish", "none", "none", -1, "", "")}

\* what app.beginUndoGroup / app.endUndoGroup throw when they fail, and what a
\* failing toString of a returned object throws
HostError == Evaluation("throws", "error", "none", "text", -1, "host error", "")

ScriptInputs ==
    [label : Labels, evaluation : Evaluations, beginThrows : BOOLEAN, endThrows : BOOLEAN]

\* JSON.stringify of the object returned: a key whose value is undefined is left out
Answer(success, hasResult, result, error, line) ==
    [propagated |-> FALSE, success |-> success, hasResult |-> hasResult, result |-> result,
     error |-> error, line |-> line]

\* the call ends with an exception instead of a return value
Propagated ==
    [propagated |-> TRUE, success |-> FALSE, hasResult |-> FALSE, result |-> "",
     error |-> "", line |-> -1]

\* the try block: what it leaves in result, or the value it throws
TryBlock(input) ==
    LET ev == input.evaluation IN
    IF input.beginThrows THEN [thrown |-> TRUE, e |-> HostError, hasResult |-> FALSE, result |-> ""]
    ELSE IF ev.kind = "throws" THEN [thrown |-> TRUE, e |-> ev, hasResult |-> FALSE, result |-> ""]
    ELSE IF ev.type = "undefined"
    THEN [thrown |-> FALSE, e |-> HostError, hasResult |-> TRUE,
          result |-> "Script executed successfully (no return value)."]
    ELSE IF ev.type = "primitive"
    THEN [thrown |-> FALSE, e |-> HostError, hasResult |-> TRUE, result |-> "String(result)"]
    ELSE IF ev.json = "text"
    THEN [thrown |-> FALSE, e |-> HostError, hasResult |-> TRUE, result |-> "JSON text"]
    ELSE IF ev.json = "undefined"
    THEN [thrown |-> FALSE, e |-> HostError, hasResult |-> FALSE, result |-> ""]
    ELSE IF ev.str = "text"
    THEN [thrown |-> FALSE, e |-> HostError, hasResult |-> TRUE, result |-> "result.toString()"]
    ELSE [thrown |-> TRUE, e |-> HostError, hasResult |-> FALSE, result |-> ""]

\* the catch block: errorMsg and errorLine, or the TypeError of e.toString()
CatchBlock(e) ==
    IF e.type = "nullish" THEN [thrown |-> TRUE, errorMsg |-> "", errorLine |-> -1]
    ELSE [thrown |-> FALSE,
          errorMsg |-> (IF e.message # "" THEN e.message ELSE "e.toString()")
                          \o (IF e.source # "" THEN " (source: " \o e.source \o ")" ELSE ""),
          errorLine |-> e.line]

\* executeScript(code, label): the calls on app in order and what the caller gets
executeScript(input) ==
    LET label == IF input.label = "" THEN DEFAULT_LABEL ELSE input.label
        body == TryBlock(input)
        caught == CatchBlock(body.e)
        undo == <<[call |-> "beginUndoGroup", label |-> label, threw |-> input.beginThrows],
                  [call |-> "endUndoGroup", label |-> "", threw |-> input.endThrows]>>
    IN  [undo |-> undo,
         returned |-> IF ~body.thrown THEN Answer(TRUE, body.hasResult, body.result, "", -1)
                      ELSE IF caught.thrown THEN Propagated
                      ELSE Answer(FALSE, FALSE, "", caught.errorMsg, caught.errorLine)]

NoScriptCall(input) == [called |-> FALSE, input |-> input, undo |-> <<>>, returned |-> Propagated]

ScriptAtRest ==
    scriptCall = NoScriptCall([label |-> "", beginThrows |-> FALSE, endThrows |-> FALSE,
                               evaluation |-> Evaluation("returns", "undefined", "none", "none",
                                                         -1, "", "")])

\* the host evaluates executeScript(code, label)
ExecuteScript ==
    /\ ~scriptCall.called
    /\ scriptCall' = [called |-> TRUE, input |-> scriptCall.input,
                      undo |-> executeScript(scriptCall.input).undo,
                      returned |-> executeScript(scriptCall.input).returned]
    /\ UNCHANGED outsideScript

(***************************************************************************)
(* extractCode as a function of the response text                          *)
(***************************************************************************)
\* a fenced block as the model writes it: the opening fence, a tag, the spaces after
\* it, the interior, the spaces before the closing fence, and the closing fence when
\* the block is closed
Block(tag, gap, interior, tail, closed) ==
    [present |-> TRUE, tag |-> tag, gap |-> gap, interior |-> interior, tail |-> tail,
     closed |-> closed]

NoBlock == [present |-> FALSE, tag |-> "", gap |-> "", interior |-> "", tail |-> "",
            closed |-> FALSE]

Interiors == {"", "var x = 1;", "alert(1);"}

Blocks ==
    {Block(tag, gap, interior, tail, closed) :
        tag \in {"", "javascript", "jsx", "extendscript"}, gap \in {"", "\n", " \n"},
        interior \in Interiors, tail \in {"", "\n"}, closed \in BOOLEAN}

\* the responses extractCode is given: some prose, up to two fenced blocks one after
\* the other, some more spaces. A second block only follows a closed one, so that
\* the fences pair up in one way only.
Responses ==
    {[lead |-> lead, first |-> first, second |-> second, trail |-> trail] :
        lead \in {"", "Here is the script:\n", " app.project.save(); "},
        first \in Blocks \cup {NoBlock},
        second \in {NoBlock} \cup {Block("javascript", "\n", interior, "\n", TRUE) :
                                      interior \in Interiors \ {""}},
        trail \in {"", "\n"}}

WellFormed(response) == response.second.present => response.first.present /\ response.first.closed

RenderBlock(block) ==
    IF ~block.present THEN ""
    ELSE FENCE \o block.tag \o block.gap \o block.interior \o block.tail
         \o (IF block.closed THEN FENCE \o "\n" ELSE "")

\* the text of a response
Render(response) ==
    response.lead \o RenderBlock(response.first) \o RenderBlock(response.second)
    \o response.trail

NoExtraction(response) ==
    [called |-> FALSE, response |-> response, text |-> Render(response), code |-> ""]

ExtractAtRest ==
    extraction = NoExtraction([lead |-> "", first |-> NoBlock, second |-> NoBlock, trail |-> ""])

\* the client calls extractCode(text)
ExtractCode ==
    /\ ~extraction.called
    /\ extraction' = [extraction EXCEPT !.called = TRUE, !.code = extractCode(extraction.text)]
    /\ UNCHANGED outsideExtract

Terminal == {"resolved", "thrown"}

\* how a generation call ended, as the then/catch handlers of executeAttempt tell it apart
GenKind(s) ==
    IF s.state = "rejected" THEN "rejected"
    ELSE IF ~s.success THEN "failed"
    ELSE IF s.code = "" THEN "empty" ELSE "code"

\* how a host execution ended, as the inner then-callback tells it apart
ExecKind(execResult) ==
    IF ~execResult.isObject THEN "exception"
    ELSE IF execResult.success THEN "success" ELSE "failure"

Ev(kind, n, detail, threw) == [ev |-> kind, n |-> n, detail |-> detail, threw |-> threw]

\* the engine before run() is called, for the inputs and runtimes given
EngineInitWith(Budgets, Callbacks, Providers, CallerHistories, Nodes, Readiness) ==
    /\ \E mr \in Budgets, oa \in Callbacks, oc \in Callbacks,
          pv \in Providers, pr \in Prompts, hi \in CallerHistories :
          options = [r \in Runs |->
                        [maxRetries |-> mr, prompt |-> pr, provider |-> pv,
                         history |-> IF hi = <<>> THEN NotGiven ELSE Given(hi),
                         onAttempt |-> IF r = 1 THEN oa ELSE Absent,
                         onCode |-> IF r = 1 THEN oc ELSE Absent]]
    /\ env \in [node : Nodes, knowledgeReady : Readiness]
    /\ requests = [r \in Runs |-> <<>>]
    /\ pc = [r \in Runs |-> "idle"]
    /\ maxRetries = [r \in Runs |-> 0]
    /\ attempts = [r \in Runs |-> <<>>]
    /\ attemptIndex = [r \in Runs |-> 0]
    /\ pending = [r \in Runs |-> Resolved(FALSE, "", NULL)]
    /\ runResult = [r \in Runs |-> NoResult]
    /\ events = [r \in Runs |-> <<>>]
    /\ aiStub = [n \in 1..(MaxAttempts + 1) |-> Undecided]
    /\ hostStub = [n \in 1..(MaxAttempts + 1) |-> Unset]

\* the engine left alone: one set of options, run() never called
EngineAtRest ==
    EngineInitWith({[given |-> FALSE, value |-> 0]}, {Absent}, {"anthropic"}, {<<>>},
                   {TRUE}, {FALSE})

\* everything but the engine left alone
OutsideEngineAtRest ==
    HistoryAtRest /\ KnowledgeAtRest /\ PanelAtRest /\ ScriptAtRest /\ ExtractAtRest

\* the state before run() is called, for callers and panels of the given kinds
InitWith(Callbacks, CallerHistories, Readiness) ==
    /\ EngineInitWith(MaxRetriesInputs, Callbacks, ProviderInputs, CallerHistories,
                      BOOLEAN, Readiness)
    /\ OutsideEngineAtRest

\* a fresh panel: no conversation yet, the knowledge index not loaded; the caller
\* may pass the notification callbacks
Init == InitWith({Absent, Fn}, {<<>>}, {FALSE})

\* a panel in use: the caller may pass a conversation history, the knowledge
\* index may be loaded; no notification callbacks
InitRequests == InitWith({Absent}, Histories, BOOLEAN)

(***************************************************************************)
(* executeAttempt(attemptIndex), up to the point where it returns the      *)
(* promise chain: the onAttempt notification, then the sendPrompt call.    *)
(* A callback that is present may return or raise.  The result is the set  *)
(* of ways this stretch can go, each with the calls it made.               *)
(***************************************************************************)
HookError == "callback raised"

executeAttempt(r, idx, atts) ==
    LET n == idx + 1
        enter == Ev("executeAttempt", n, "", FALSE)
        notify(threw) == Ev("onAttempt", n, AttemptStatus(idx), threw)
        call == sendPrompt(n, sendPromptOptions(options[r], idx, atts), env.knowledgeReady)
        wire == IF IsKnownProvider(call.provider) THEN httpRequests(env.node) ELSE <<>>
        send == <<Ev("sendPrompt", n, "", FALSE)>>
                    \o [i \in 1..Len(wire) |-> Ev("httpRequest", n, wire[i], FALSE)]
    IN  IF options[r].onAttempt = Absent
        THEN {[threw |-> FALSE, calls |-> <<enter>> \o send, sent |-> <<call>>]}
        ELSE {[threw |-> FALSE, calls |-> <<enter, notify(FALSE)>> \o send, sent |-> <<call>>],
              [threw |-> TRUE, calls |-> <<enter, notify(TRUE)>>, sent |-> <<>>]}

\* the promise of run() resolves with buildFinalResult(attempts, success)
Resolve(r, atts, success, log) ==
    /\ pc' = [pc EXCEPT ![r] = "resolved"]
    /\ attempts' = [attempts EXCEPT ![r] = atts]
    /\ runResult' = [runResult EXCEPT ![r] = buildFinalResult(atts, success)]
    /\ events' = [events EXCEPT ![r] = log]
    /\ UNCHANGED <<attemptIndex, pending, requests>>

\* the .catch handler of the executeAttempt frame of attempt n
Catch(r, n, atts, err, log) ==
    Resolve(r, Append(atts, CaughtAttempt(n, err)), FALSE, log)

\* return executeAttempt(attemptIndex + 1) inside a then-callback of attempt n:
\* an exception raised before the inner chain exists lands in the .catch of attempt n
Recurse(r, n, atts, log) ==
    \E out \in executeAttempt(r, n, atts) :
        IF out.threw
        THEN Catch(r, n, atts, ErrorReason(HookError), log \o out.calls)
        ELSE /\ pc' = [pc EXCEPT ![r] = "generating"]
             /\ attemptIndex' = [attemptIndex EXCEPT ![r] = n]
             /\ attempts' = [attempts EXCEPT ![r] = atts]
             /\ events' = [events EXCEPT ![r] = log \o out.calls]
             /\ requests' = [requests EXCEPT ![r] = @ \o out.sent]
             /\ UNCHANGED <<runResult, pending>>

(***************************************************************************)
(* run(options): set up the locals and enter executeAttempt(0).  An        *)
(* exception raised by onAttempt here leaves run() as a synchronous throw: *)
(* no promise exists yet.                                                  *)
(***************************************************************************)
Run(r) ==
    /\ pc[r] = "idle"
    /\ r = 2 => (pc[1] \in Terminal /\ options[2] # options[1])
    /\ maxRetries' = [maxRetries EXCEPT ![r] = DefaultedMaxRetries(options[r].maxRetries)]
    /\ \E out \in executeAttempt(r, 0, <<>>) :
          /\ pc' = [pc EXCEPT ![r] = IF out.threw THEN "thrown" ELSE "generating"]
          /\ events' = [events EXCEPT ![r] = out.calls]
          /\ requests' = [requests EXCEPT ![r] = out.sent]
    /\ attempts' = [attempts EXCEPT ![r] = <<>>]
    /\ attemptIndex' = [attemptIndex EXCEPT ![r] = 0]
    /\ UNCHANGED <<options, pending, runResult, env, aiStub, hostStub, outsideEngine>>

(***************************************************************************)
(* The generation promise settles: the first then-callback of              *)
(* executeAttempt runs (or, on rejection, its .catch handler).             *)
(***************************************************************************)
GenerationSettles(r) ==
    /\ pc[r] = "generating"
    /\ LET n == attemptIndex[r] + 1 IN
       \E reply \in HttpReplies :
          /\ aiStub[n] \in {Undecided, reply}
          /\ aiStub' = [aiStub EXCEPT ![n] =
                            IF IsKnownProvider(options[r].provider) THEN reply ELSE @]
          /\ LET s == sendPromptSettles(options[r].provider, env.node, reply)
                 log == Append(events[r], Ev("aiResult", n, GenKind(s), FALSE))
             IN
             IF s.state = "rejected"
             THEN Catch(r, n, attempts[r], s.reason, log)
             ELSE CASE AfterGeneration(s, n, maxRetries[r]) = "final" ->
                          Resolve(r,
                                  Append(attempts[r],
                                         IF s.success THEN EmptyCodeAttempt(n)
                                                      ELSE GenerationFailedAttempt(n, s)),
                                  FALSE, log)
                    [] AfterGeneration(s, n, maxRetries[r]) = "retry" ->
                          Recurse(r, n, Append(attempts[r], EmptyCodeAttempt(n)), log)
                    [] OTHER ->
                          \* onCode, then executeInAE
                          \/ /\ pc' = [pc EXCEPT ![r] = "executing"]
                             /\ pending' = [pending EXCEPT ![r] = s]
                             /\ events' = [events EXCEPT ![r] =
                                   log \o (IF options[r].onCode = Absent THEN <<>>
                                           ELSE <<Ev("onCode", n, s.code, FALSE)>>)
                                       \o <<Ev("evalScript", n, s.code, FALSE)>>]
                             /\ UNCHANGED <<attempts, attemptIndex, runResult, requests>>
                          \/ /\ options[r].onCode # Absent
                             /\ Catch(r, n, attempts[r], ErrorReason(HookError),
                                      Append(log, Ev("onCode", n, s.code, TRUE)))
    /\ UNCHANGED <<options, maxRetries, env, hostStub, outsideEngine>>

(***************************************************************************)
(* The host answers evalScript: the promise of executeInAE resolves and    *)
(* the inner then-callback runs.                                           *)
(***************************************************************************)
TypeErrorMessage == "null is not an object (evaluating 'execResult.success')"

ExecutionSettles(r) ==
    /\ pc[r] = "executing"
    /\ LET n == attemptIndex[r] + 1 IN
       \E reply \in HostReplies :
          /\ hostStub[n] \in {Unset, reply}
          /\ hostStub' = [hostStub EXCEPT ![n] = reply]
          /\ LET execResult == executeInAE(reply)
                 log == Append(events[r], Ev("execResult", n, ExecKind(execResult), FALSE))
                 atts == Append(attempts[r], ExecutedAttempt(n, pending[r].code, execResult))
             IN  IF ~execResult.isObject
                 THEN Catch(r, n, attempts[r], ErrorReason(TypeErrorMessage), log)
                 ELSE CASE AfterExecution(execResult, n, maxRetries[r]) = "success" ->
                              Resolve(r, atts, TRUE, log)
                        [] AfterExecution(execResult, n, maxRetries[r]) = "retry" ->
                              Recurse(r, n, atts, log)
                        [] OTHER ->
                              Resolve(r, atts, FALSE, log)
    /\ UNCHANGED <<options, maxRetries, env, aiStub, outsideEngine>>

Next == \E r \in Runs : Run(r) \/ GenerationSettles(r) \/ ExecutionSettles(r)

Spec == Init /\ [][Next]_vars

\* the same engine, observed for what its generation calls are given
SpecRequests == InitRequests /\ [][Next]_vars

(***************************************************************************)
(* The transcript and the history slice taken from it                      *)
(***************************************************************************)
InitHistory ==
    EngineAtRest /\ HistoryAtRest /\ KnowledgeAtRest /\ PanelAtRest /\ ScriptAtRest
    /\ ExtractAtRest

NextHistory ==
    \/ \E role \in ROLES : AddMessage(role)
    \/ \E maxTurns \in MaxTurnsInputs : BuildConversationHistory(maxTurns)

SpecHistory == InitHistory /\ [][NextHistory]_vars

InitKnowledge ==
    EngineAtRest /\ HistoryAtRest /\ KnowledgeAtRest /\ PanelAtRest /\ ScriptAtRest
    /\ ExtractAtRest

\* retrieve on its own: the module unloaded or holding one of the corpora
InitRetrieve ==
    /\ EngineAtRest
    /\ HistoryAtRest
    /\ PanelAtRest
    /\ ScriptAtRest
    /\ ExtractAtRest
    /\ knowledge \in {Module(NoCorpus, FALSE, FALSE, EmptyIndex)} \cup {Loaded(c) : c \in Corpora}
    /\ disk = NoCorpus
    /\ inFlight = <<>>
    /\ NothingOnRecord

\* the knowledge base: loading, reloading and retrieval
SpecKnowledge == InitKnowledge /\ [][NextKnowledge]_vars

\* retrieve as a function of the module state, the prompt and the options
SpecRetrieve == InitRetrieve /\ [][NextRetrieve]_vars

InitPanel ==
    EngineAtRest /\ HistoryAtRest /\ KnowledgeAtRest /\ PanelAtRest /\ ScriptAtRest
    /\ ExtractAtRest

NextPanel == HandleRun \/ ContextResolves \/ CodeShown \/ RunSettles \/ ChainEnds

\* the other events of the panel that append to the transcript
NextPanelEvents ==
    \/ NextPanel
    \/ RunLibraryScript
    \/ LibraryScriptAnswered
    \/ HandleExplain
    \/ ExplainAnswered

\* the panel's Run button and the chains it starts
SpecPanel == InitPanel /\ [][NextPanel]_vars

\* handleRun next to the library scripts and the explanations of the panel
SpecPanelEvents == InitPanel /\ [][NextPanelEvents]_vars

\* the panel when the comp-context fetch is answered, the run settles and the
\* handlers of a settled promise are called
SpecPanelLive ==
    /\ InitPanel
    /\ [][NextPanel]_vars
    /\ WF_vars(ContextResolves)
    /\ WF_vars(RunSettles)
    /\ WF_vars(ChainEnds)

InitHost ==
    /\ EngineAtRest
    /\ HistoryAtRest
    /\ KnowledgeAtRest
    /\ PanelAtRest
    /\ ExtractAtRest
    /\ \E input \in ScriptInputs : scriptCall = NoScriptCall(input)

NextHost == ExecuteScript

\* executeScript as a function of its arguments and of what the host does
SpecHost == InitHost /\ [][NextHost]_vars

InitExtract ==
    /\ EngineAtRest
    /\ HistoryAtRest
    /\ KnowledgeAtRest
    /\ PanelAtRest
    /\ ScriptAtRest
    /\ \E response \in Responses : WellFormed(response) /\ extraction = NoExtraction(response)

NextExtract == ExtractCode

\* extractCode as a function of the response text
SpecExtract == InitExtract /\ [][NextExtract]_vars

TypeOK ==
    /\ pc \in [Runs -> {"idle", "generating", "executing", "resolved", "thrown"}]
    /\ \A r \in Runs : Len(attempts[r]) <= MaxAttempts
    /\ \A r \in Runs : runResult[r].returned <=> pc[r] = "resolved"

(***************************************************************************)
(* Reading the record of a run                                             *)
(***************************************************************************)
EventsOf(r, kind) == SelectSeq(events[r], LAMBDA e : e.ev = kind)

Count(r, kind) == Len(EventsOf(r, kind))

NoCallbackRaised(r) == \A i \in 1..Len(events[r]) : ~events[r][i].threw

\* the attempt budget a caller's maxRetries stands for
Budget(opt) ==
    IF ~opt.given \/ opt.value = 0 THEN 3
    ELSE IF opt.value < 0 THEN 1 ELSE opt.value

(***************************************************************************)
(* C1 (as stated): whatever maxRetries is passed, the returned RunResult   *)
(* has totalAttempts = attempts.length, totalAttempts >= 1 and             *)
(* totalAttempts <= the maxRetries passed (3 when it is omitted).          *)
(***************************************************************************)
C1_AsStated ==
    \A r \in Runs :
        runResult[r].returned =>
            /\ runResult[r].totalAttempts = Len(runResult[r].attempts)
            /\ runResult[r].totalAttempts >= 1
            /\ runResult[r].totalAttempts <=
                   (IF options[r].maxRetries.given THEN options[r].maxRetries.value
                                                   ELSE 3)

(***************************************************************************)
(* C1 (amended): the returned RunResult has totalAttempts =                *)
(* attempts.length, totalAttempts >= 1 and totalAttempts <= the attempt    *)
(* budget: the maxRetries passed when it is positive, 3 when it is omitted *)
(* or zero, 1 when it is negative.                                         *)
(***************************************************************************)
C1_AttemptCount ==
    \A r \in Runs :
        runResult[r].returned =>
            /\ runResult[r].totalAttempts = Len(runResult[r].attempts)
            /\ runResult[r].attempts = attempts[r]
            /\ runResult[r].totalAttempts >= 1
            /\ runResult[r].totalAttempts <= Budget(options[r].maxRetries)

\* a run that used its whole budget of more than one attempt
C1_Witness ==
    \E r \in Runs :
        /\ runResult[r].returned
        /\ options[r].maxRetries.given
        /\ options[r].maxRetries.value >= 2
        /\ runResult[r].totalAttempts = options[r].maxRetries.value

(***************************************************************************)
(* C2: RunResult.success is true if and only if the success flag of the    *)
(* last element of RunResult.attempts is true.                             *)
(***************************************************************************)
C2_TerminalCorrectness ==
    \A r \in Runs :
        runResult[r].returned =>
            (runResult[r].success <=> Last(runResult[r].attempts).success)

\* a run that failed at execution after a retry, on its last permitted attempt
C2_Witness ==
    \E r \in Runs :
        /\ runResult[r].returned
        /\ ~runResult[r].success
        /\ runResult[r].totalAttempts >= 2
        /\ Last(events[r]).ev = "execResult"

(***************************************************************************)
(* C3: a generation result with success:false at attempt n ends the run:   *)
(* nothing is called after it (no generation, no execution, no callback),  *)
(* and the run resolves with success = false and totalAttempts = n,        *)
(* whatever maxRetries is.                                                 *)
(***************************************************************************)
C3_GenerationFailureTerminal ==
    \A r \in Runs :
        \A i \in 1..Len(events[r]) :
            (events[r][i].ev = "aiResult" /\ events[r][i].detail = "failed") =>
                /\ i = Len(events[r])
                /\ pc[r] = "resolved"
                /\ ~runResult[r].success
                /\ runResult[r].totalAttempts = events[r][i].n

\* generation fails on a retry while budget remains
C3_Witness ==
    \E r \in Runs :
        /\ Len(events[r]) > 0
        /\ Last(events[r]).ev = "aiResult"
        /\ Last(events[r]).detail = "failed"
        /\ Last(events[r]).n = 2
        /\ maxRetries[r] = 3

(***************************************************************************)
(* C4: when every generation call yields non-empty code and the host       *)
(* executions fail on attempts 1..k-1 and succeed on attempt k, the run    *)
(* resolves with success = true and totalAttempts = k, k being within the  *)
(* attempt budget; a successful execution is the last thing the run does,  *)
(* so nothing is executed after it.                                        *)
(***************************************************************************)
C4_RetryUntilSuccess ==
    \A r \in Runs :
        /\ \A i \in 1..Len(events[r]) :
              (events[r][i].ev = "execResult" /\ events[r][i].detail = "success") =>
                  /\ i = Len(events[r])
                  /\ pc[r] = "resolved"
        /\ LET gen == EventsOf(r, "aiResult")
               exe == EventsOf(r, "execResult")
               k == Len(exe)
           IN  ( /\ pc[r] = "resolved"
                 /\ \A i \in 1..Len(gen) : gen[i].detail = "code"
                 /\ k >= 1
                 /\ \A i \in 1..(k - 1) : exe[i].detail = "failure"
                 /\ exe[k].detail = "success" )
               => /\ runResult[r].success
                  /\ runResult[r].totalAttempts = k
                  /\ Count(r, "evalScript") = k
                  /\ Count(r, "sendPrompt") = k
                  /\ k <= Budget(options[r].maxRetries)

\* two failed executions, then a successful third one
C4_Witness ==
    \E r \in Runs :
        /\ pc[r] = "resolved"
        /\ runResult[r].success
        /\ Count(r, "execResult") = 3
        /\ \A i \in 1..Len(EventsOf(r, "aiResult")) : EventsOf(r, "aiResult")[i].detail = "code"
        /\ EventsOf(r, "execResult")[1].detail = "failure"
        /\ EventsOf(r, "execResult")[2].detail = "failure"

C7_NeverThrows ==
    \A r \in Runs :
        /\ pc[r] # "thrown"
        /\ pc[r] = "resolved" => runResult[r].returned

(***************************************************************************)
(* C8: when a run resolves, attempts holds exactly one record per attempt  *)
(* started, in order, with ordinals 1, 2, ..., totalAttempts; and while    *)
(* the generation call of attempt n+1 is in flight the records of attempts *)
(* 1..n are already there.                                                 *)
(***************************************************************************)
C8_OneRecordPerAttempt ==
    \A r \in Runs :
        /\ pc[r] = "resolved" =>
              /\ Len(attempts[r]) = Count(r, "executeAttempt")
              /\ \A i \in 1..Len(attempts[r]) : attempts[r][i].attempt = i
        /\ pc[r] = "generating" =>
              /\ Len(attempts[r]) = attemptIndex[r]
              /\ \A i \in 1..Len(attempts[r]) : attempts[r][i].attempt = i

(***************************************************************************)
(* C9: the callbacks are observation hooks only: served by the same        *)
(* generation and execution outcomes, the run with callbacks (run 1) and   *)
(* the run without them (run 2) end the same way, with the same RunResult. *)
(***************************************************************************)
C9_CallbacksDoNotAffectResult ==
    (pc[1] \in Terminal /\ pc[2] \in Terminal) =>
        /\ pc[1] = pc[2]
        /\ runResult[1] = runResult[2]

(***************************************************************************)
(* C10: when the callbacks are given, onAttempt(n, max, status) fires      *)
(* exactly once per attempt n, as the first thing of the attempt and       *)
(* before its generation call, with status 'generating' for n = 1 and      *)
(* 'retrying' for n > 1; onCode(code, n) fires only right after a          *)
(* generation result with non-empty code, with that code, and before the   *)
(* execution call of the attempt; it never fires for a failed generation   *)
(* or for empty code.                                                      *)
(***************************************************************************)
C10_NotificationOrdering ==
    \A r \in Runs :
        LET log == events[r]
            started == EventsOf(r, "executeAttempt")
            notified == EventsOf(r, "onAttempt")
        IN  /\ options[r].onAttempt = Fn =>
                  /\ Len(notified) = Len(started)
                  /\ \A i \in 1..Len(notified) :
                        /\ notified[i].n = started[i].n
                        /\ \A j \in 1..Len(notified) : notified[j].n = notified[i].n => j = i
                        /\ notified[i].detail = (IF notified[i].n = 1 THEN "generating" ELSE "retrying")
                  /\ \A i \in 1..Len(log) :
                        /\ log[i].ev = "sendPrompt" =>
                              /\ i > 1
                              /\ log[i - 1].ev = "onAttempt"
                              /\ log[i - 1].n = log[i].n
                        /\ log[i].ev = "executeAttempt" =>
                              /\ i < Len(log)
                              /\ log[i + 1].ev = "onAttempt"
                              /\ log[i + 1].n = log[i].n
            /\ options[r].onAttempt = Absent => Len(notified) = 0
            /\ options[r].onCode = Absent => Count(r, "onCode") = 0
            /\ \A i \in 1..Len(log) :
                  /\ log[i].ev = "onCode" =>
                        /\ i > 1
                        /\ log[i - 1].ev = "aiResult"
                        /\ log[i - 1].detail = "code"
                        /\ log[i - 1].n = log[i].n
                        /\ log[i].detail = sendPromptSettles(options[r].provider, env.node, aiStub[log[i].n]).code
                        /\ log[i].detail # ""
                        /\ \A j \in 1..(i - 1) :
                              log[j].ev \in {"evalScript", "onCode"} => log[j].n < log[i].n
                  /\ (log[i].ev = "evalScript" /\ options[r].onCode = Fn) =>
                        /\ i > 1
                        /\ log[i - 1].ev = "onCode"
                        /\ log[i - 1].n = log[i].n
                        /\ ~log[i - 1].threw
                  /\ (log[i].ev = "aiResult" /\ log[i].detail # "code" /\ i < Len(log)) =>
                        log[i + 1].ev # "onCode"

\* a run with both callbacks that was notified of a retry and of its code
C10_Witness ==
    \E r \in Runs :
        /\ options[r].onAttempt = Fn
        /\ options[r].onCode = Fn
        /\ pc[r] = "resolved"
        /\ Count(r, "onAttempt") >= 2
        /\ Count(r, "onCode") >= 2
        /\ \E i \in 1..Len(events[r]) :
              events[r][i].ev = "aiResult" /\ events[r][i].detail = "empty"

(***************************************************************************)
(* The calls of a run that leave the panel, and their settlements          *)
(***************************************************************************)
SettlementOf(call) == IF call = "sendPrompt" THEN "aiResult" ELSE "execResult"

\* the generation and host execution calls of a run and their settlements, in order
Traffic(r) ==
    SelectSeq(events[r],
              LAMBDA e : e.ev \in {"sendPrompt", "aiResult", "evalScript", "execResult"})

(***************************************************************************)
(* C11: within one run the chain is strictly sequential: at every moment   *)
(* at most one generation call or host execution call of the run is in     *)
(* flight (every call is followed by its own settlement before the next    *)
(* call is issued), and the generation call of attempt n+1 is issued only  *)
(* after the execution result, or the empty-code outcome, of attempt n is  *)
(* known.                                                                  *)
(***************************************************************************)
C11_StrictlySequential ==
    \A r \in Runs :
        LET io == Traffic(r) IN
        /\ \A k \in 1..Len(io) :
              IF k % 2 = 1
              THEN io[k].ev \in {"sendPrompt", "evalScript"}
              ELSE /\ io[k].ev = SettlementOf(io[k - 1].ev)
                   /\ io[k].n = io[k - 1].n
        /\ IF Len(io) % 2 = 1
           THEN pc[r] = (IF Last(io).ev = "sendPrompt" THEN "generating" ELSE "executing")
           ELSE pc[r] \notin {"generating", "executing"}
        /\ \A k \in 1..Len(io) :
              (io[k].ev = "sendPrompt" /\ io[k].n > 1) =>
                  /\ k > 1
                  /\ io[k - 1].n = io[k].n - 1
                  /\ \/ io[k - 1].ev = "execResult"
                     \/ io[k - 1].ev = "aiResult" /\ io[k - 1].detail = "empty"

\* a run whose second generation followed an empty-code outcome and whose
\* third followed a failed execution, now waiting for the third generation
C11_Witness ==
    \E r \in Runs :
        /\ pc[r] = "generating"
        /\ attemptIndex[r] = 2
        /\ \E i \in 1..Len(events[r]) :
              events[r][i].ev = "aiResult" /\ events[r][i].n = 1 /\ events[r][i].detail = "empty"
        /\ \E i \in 1..Len(events[r]) :
              events[r][i].ev = "execResult" /\ events[r][i].n = 2 /\ events[r][i].detail = "failure"

C13_RetryContextFromPreviousAttempt ==
    \A r \in Runs :
        \A i \in 1..Len(requests[r]) :
            LET q == requests[r][i]
                original == options[r].prompt
            IN  /\ q.n = i
                /\ q.retryContext = <<>>
                /\ IF i = 1
                   THEN q.prompt = original
                   ELSE LET prev == attempts[r][i - 1] IN
                        /\ prev.attempt = i - 1
                        /\ Len(q.prompt) = 11 + Len(original)
                        /\ q.prompt[3] = "ERROR: " \o prev.error
                        /\ q.prompt[7] = prev.code
                        /\ q.prompt[10] = "ORIGINAL REQUEST: " \o original[1]
                        /\ \A k \in 2..Len(original) : q.prompt[9 + k] = original[k]

\* a third generation call, after two attempts that failed differently
C13_Witness ==
    \E r \in Runs :
        /\ Len(requests[r]) = 3
        /\ Len(attempts[r]) >= 2
        /\ attempts[r][1].error # attempts[r][2].error
        /\ attempts[r][1].code # attempts[r][2].code

(***************************************************************************)
(* C14: on every attempt of a run, retries included, the knowledge lookup  *)
(* is keyed on the original prompt passed to run(), not on text carrying   *)
(* retry context: the text handed to Knowledge.retrieve is the same for    *)
(* attempt 1 and for every later attempt.                                  *)
(***************************************************************************)
C14_RetrievalKeyedOnRawPrompt ==
    \A r \in Runs :
        \A i \in 1..Len(requests[r]) :
            requests[r][i].retrieved =>
                /\ requests[r][i].retrieveKey = options[r].prompt
                /\ requests[r][i].retrieveKey = requests[r][1].retrieveKey

(***************************************************************************)
(* C15: the conversation history passed in the options of run() reaches    *)
(* every generation call of the run: each sendPrompt works with exactly    *)
(* that history, the same on every attempt.                                *)
(***************************************************************************)
C15_HistoryThreaded ==
    \A r \in Runs :
        \A i \in 1..Len(requests[r]) :
            requests[r][i].history =
                (IF options[r].history.given THEN options[r].history.value ELSE <<>>)

C17_FailuresAreValues ==
    \A r \in Runs :
        options[r].provider \in {"anthropic", "openai", "google"} =>
            \A n \in 1..Len(requests[r]) :
                aiStub[n] # Undecided =>
                    LET s == sendPromptSettles(options[r].provider, env.node, aiStub[n])
                        ok == aiStub[n].kind = "response" /\ aiStub[n].status = 200
                                  /\ ParseEnvelope(aiStub[n].body).parsed
                                  /\ ParseEnvelope(aiStub[n].body).error = NULL
                    IN  /\ s.state = "resolved"
                        /\ s.success \in BOOLEAN
                        /\ ~ok => (~s.success /\ s.error # NULL)

C19_BridgeFailureIsRetryable ==
    \A r \in Runs :
        LET log == events[r] IN
        \A i \in 1..Len(log) :
            (log[i].ev = "execResult" /\ hostStub[log[i].n] = EvalScript_ErrMessage) =>
                LET n == log[i].n IN
                /\ log[i].detail = "failure"
                /\ attempts[r][n].attempt = n
                /\ ~attempts[r][n].success
                /\ attempts[r][n].code \in Codes
                /\ attempts[r][n].error =
                       "ExtendScript evaluation error. The host script may not be loaded."
                /\ IF n < maxRetries[r]
                   THEN /\ i < Len(log)
                        /\ log[i + 1].ev = "executeAttempt"
                        /\ log[i + 1].n = n + 1
                   ELSE /\ i = Len(log)
                        /\ pc[r] = "resolved"
                        /\ ~runResult[r].success
                        /\ runResult[r].totalAttempts = n

\* the marker on attempt 1 with budget left, and again on the last permitted attempt
C19_Witness ==
    \E r \in Runs :
        /\ maxRetries[r] = 2
        /\ hostStub[1] = EvalScript_ErrMessage
        /\ hostStub[2] = EvalScript_ErrMessage
        /\ pc[r] = "resolved"
        /\ Count(r, "execResult") = 2

(***************************************************************************)
(* C20: the fields of the RunResult are derived from the last attempt:     *)
(* finalCode and finalResult are those of the last attempt and are         *)
(* non-null only when success is true; finalError is the error of the last *)
(* attempt and is set only when success is false; on failure the whole     *)
(* attempts sequence is still returned, the code of a last attempt that    *)
(* failed in the host included.                                            *)
(***************************************************************************)
C20_FieldsFromLastAttempt ==
    \A r \in Runs :
        runResult[r].returned =>
            LET res == runResult[r]
                last == res.attempts[Len(res.attempts)]
            IN  /\ res.attempts = attempts[r]
                /\ res.totalAttempts = Len(attempts[r])
                /\ \A k \in 1..Len(res.attempts) : res.attempts[k].attempt <= last.attempt
                /\ res.success =>
                      /\ res.finalCode = last.code
                      /\ res.finalResult = last.result
                      /\ res.finalError = NULL
                /\ ~res.success =>
                      /\ res.finalCode = NULL
                      /\ res.finalResult = NULL
                      /\ res.finalError = last.error
                /\ (~res.success /\ Last(events[r]).ev = "execResult"
                        /\ Last(events[r]).detail = "failure") =>
                      /\ last.code \in Codes
                      /\ last.code = sendPromptSettles(options[r].provider, env.node,
                                                       aiStub[last.attempt]).code

\* a run that failed in the host on its second attempt: no finalCode, the code kept
\* in the attempts
C20_Witness ==
    \E r \in Runs :
        /\ runResult[r].returned
        /\ ~runResult[r].success
        /\ runResult[r].totalAttempts = 2
        /\ runResult[r].finalCode = NULL
        /\ runResult[r].finalError # NULL
        /\ runResult[r].attempts[2].code \in Codes

(***************************************************************************)
(* Reading a buildConversationHistory call                                 *)
(***************************************************************************)
\* the positions of the user and assistant entries of the transcript, in order
Turns == SelectSeq([i \in 1..Len(historyCall.transcript) |-> i],
                   LAMBDA i : historyCall.transcript[i].role \in {"user", "assistant"})

Min(a, b) == IF a <= b THEN a ELSE b

(***************************************************************************)
(* C21: buildConversationHistory(maxTurns) with maxTurns > 0 returns, in   *)
(* chronological order, the last maxTurns of the user/assistant entries of *)
(* the transcript once the entry pushed last has been removed; its length  *)
(* is min(maxTurns, number of user/assistant entries - 1), 0 for an empty  *)
(* transcript.                                                             *)
(***************************************************************************)
C21_LastTurnsWithoutCurrent ==
    (historyCall.called /\ historyCall.maxTurns.given /\ historyCall.maxTurns.value > 0) =>
        LET result == historyCall.result
            n == historyCall.maxTurns.value
            kept == IF Len(Turns) = 0 THEN 0 ELSE Min(n, Len(Turns) - 1)
        IN  /\ Len(result) = kept
            /\ \A k \in 1..kept :
                  result[k] = historyCall.transcript[Turns[Len(Turns) - 1 - kept + k]]

\* a transcript with a system entry and more earlier turns than asked for
C21_Witness ==
    /\ historyCall.called
    /\ historyCall.maxTurns.given
    /\ historyCall.maxTurns.value = 1
    /\ Len(Turns) = 3
    /\ Len(historyCall.transcript) = 4
    /\ Len(historyCall.result) = 1

(***************************************************************************)
(* C22: buildConversationHistory(maxTurns) returns an empty slice for      *)
(* every maxTurns <= 0, maxTurns = 0 included, whatever the transcript     *)
(* holds.                                                                  *)
(***************************************************************************)
C22_NoHistoryForNonPositiveTurns ==
    (historyCall.called /\ historyCall.maxTurns.given /\ historyCall.maxTurns.value <= 0) =>
        historyCall.result = <<>>

\* the chunks of a type in a corpus, and the keywords buildIndex files one under
ChunksOf(corpus, type) ==
    CASE type = "atom" -> corpus.atoms
      [] type = "recipe" -> corpus.recipes
      [] type = "gotcha" -> corpus.gotchas

KeywordSet(corpus, type, i) ==
    IF type = "atom" THEN Range(AtomKeywords(corpus.atoms[i]))
    ELSE Range(TitledKeywords(ChunksOf(corpus, type)[i]))

CHUNK_TYPES == {"atom", "recipe", "gotcha"}

\* a call of retrieve that found a corpus loaded
Answered == lastRetrieve.called /\ lastRetrieve.before.ready /\ lastRetrieve.before.corpus # NoCorpus

(***************************************************************************)
(* C23: the score of a chunk is additive over the distinct surviving       *)
(* tokens of the prompt: 3 points for a token that equals a keyword the    *)
(* chunk is referenced under, and 1 point for every keyword the chunk is   *)
(* referenced under that has the token as a strict prefix.                 *)
(***************************************************************************)
C23_ScoresAreAdditive ==
    Answered =>
        LET corpus == lastRetrieve.before.corpus
            words == Tokens(lastRetrieve.prompt)
            points(type, i, word) ==
                (IF word \in KeywordSet(corpus, type, i) THEN 3 ELSE 0)
                    + Cardinality({kw \in KeywordSet(corpus, type, i) : IsStrictPrefix(word, kw)})
        IN  \A type \in CHUNK_TYPES : \A i \in 1..Len(ChunksOf(corpus, type)) :
                lastRetrieve.scores[type][i] =
                    SumOver([k \in 1..Len(words) |-> points(type, i, words[k])], 1..Len(words))

(***************************************************************************)
(* C26: after buildIndex no keyword's reference list names the same        *)
(* {type, index} pair twice, so a token that equals a keyword adds exactly *)
(* 3 points to a chunk referenced under it.                                *)
(***************************************************************************)
C26_IndexIsASet ==
    /\ \A kw \in DOMAIN knowledge.index :
          \A a, b \in 1..Len(knowledge.index[kw]) :
              a # b => knowledge.index[kw][a] # knowledge.index[kw][b]
    /\ \A word \in DOMAIN knowledge.index :
          \A ref \in Range(knowledge.index[word]) :
              3 * Hits(knowledge.index[word], ref.type, ref.index) = 3

\* the option of a retrieve call that limits a chunk type, and its default
LimitOption(opts, type) ==
    CASE type = "atom" -> opts.maxAtoms
      [] type = "recipe" -> opts.maxRecipes
      [] type = "gotcha" -> opts.maxGotchas

DefaultLimit(type) ==
    CASE type = "atom" -> DEFAULT_MAX_ATOMS
      [] type = "recipe" -> DEFAULT_MAX_RECIPES
      [] type = "gotcha" -> DEFAULT_MAX_GOTCHAS

\* the chunks of a type that reached the threshold in the last call
Qualifying(type) ==
    {i \in DOMAIN lastRetrieve.scores[type] : lastRetrieve.scores[type][i] >= 3}

\* the selection of a type: chunks at or above 3, no chunk twice, by score
\* descending, no chunk left out for a lower-scoring one, and as many as the
\* limit allows
SelectedUpTo(type, limit) ==
    LET chosen == lastRetrieve.top[type]
        score == lastRetrieve.scores[type]
    IN  /\ Range(chosen) \subseteq Qualifying(type)
        /\ \A p, q \in 1..Len(chosen) : p < q =>
              chosen[p] # chosen[q] /\ score[chosen[p]] >= score[chosen[q]]
        /\ \A i \in Qualifying(type) \ Range(chosen) :
              \A p \in 1..Len(chosen) : score[chosen[p]] >= score[i]
        /\ Len(chosen) = Min(limit, Cardinality(Qualifying(type)))

SECTION_LABELS == {"=== API ===", "=== PATTERNS ===", "=== AVOID ==="}

(***************************************************************************)
(* C25: retrieve returns the empty string whenever the corpus is not       *)
(* loaded; with a corpus loaded it returns the empty string exactly when   *)
(* no chunk of any type scores at least 3; and a section label in the text *)
(* is always followed by an entry.                                         *)
(***************************************************************************)
C25_EmptyWhenNothingToShow ==
    lastRetrieve.called =>
        LET text == lastRetrieve.text IN
        /\ ~Answered => text = <<>>
        /\ Answered => (text = <<>> <=> \A type \in CHUNK_TYPES : Qualifying(type) = {})
        /\ \A p \in 1..Len(text) :
              text[p] \in SECTION_LABELS =>
                  p < Len(text) /\ text[p + 1] \notin SECTION_LABELS \cup {""}

\* a loaded corpus in which the prompt hits chunks, none of them with 3 points
C25_Witness ==
    /\ Answered
    /\ lastRetrieve.text = <<>>
    /\ \E type \in CHUNK_TYPES : \E i \in DOMAIN lastRetrieve.scores[type] :
          lastRetrieve.scores[type][i] > 0

(***************************************************************************)
(* C27: once update() has started, a retrieve call returns what retrieve   *)
(* computes from the complete corpus that was held when update() was       *)
(* called, or from a complete new corpus, never the result of a cleared or *)
(* partial state.                                                          *)
(***************************************************************************)
C27_ReloadIsAtomicForReaders ==
    [][(Len(inFlight') > Len(inFlight) /\ inFlight'[Len(inFlight')].by = "update") =>
          \A prompt \in ReloadPrompts :
              \E before \in {knowledge} \cup {Loaded(c) : c \in Corpora} :
                  retrieve(knowledge', prompt, DefaultOptions).text
                      = retrieve(before, prompt, DefaultOptions).text]_vars

RunsInFlight == {i \in 1..Len(chains) : chains[i].stage = "running"}

\* the chains of handleRun that have not reached their last then
ChainsOpen == {i \in 1..Len(chains) : chains[i].stage # "done"}

(***************************************************************************)
(* C29: from the moment handleRun sets isProcessing until the promise      *)
(* chain of that run has finished, isProcessing stays set and every        *)
(* further Run or Enter submission is dropped, so at most one              *)
(* RetryEngine.run() started by handleRun is in flight at any time.        *)
(***************************************************************************)
C29_RunsAreSerialized ==
    /\ Cardinality(RunsInFlight) <= 1
    /\ Cardinality(ChainsOpen) <= 1
    /\ isProcessing <=> ChainsOpen # {}
    /\ \A k \in 1..Len(submissions) :
          submissions[k].during => submissions[k].outcome = "dropped"
    /\ Len(chains) = Cardinality({k \in 1..Len(submissions) : submissions[k].outcome = "started"})

\* a prompt with an API key behind it is submitted while a run is in flight
C29_Witness ==
    /\ Cardinality(RunsInFlight) = 1
    /\ \E k \in 1..Len(submissions) :
          /\ submissions[k].during
          /\ submissions[k].prompt = "make a null"
          /\ submissions[k].outcome = "dropped"
    /\ \E i \in 1..Len(chains) : chains[i].stage = "done"

(***************************************************************************)
(* C30: every executeScript call makes exactly one beginUndoGroup call     *)
(* followed by exactly one endUndoGroup attempt, and returns to its caller *)
(* a JSON object with success = true and a string result, or success =     *)
(* false and an error message; no exception reaches the caller, whether    *)
(* the code returns or throws.                                             *)
(***************************************************************************)
C30_OneUndoGroupAndAStructuredAnswer ==
    scriptCall.called =>
        /\ Len(scriptCall.undo) = 2
        /\ scriptCall.undo[1].call = "beginUndoGroup"
        /\ scriptCall.undo[2].call = "endUndoGroup"
        /\ ~scriptCall.returned.propagated
        /\ scriptCall.returned.success => scriptCall.returned.hasResult
        /\ ~scriptCall.returned.success => scriptCall.returned.error # ""

(***************************************************************************)
(* C33: after any sequence of init(), cache loads, downloads and update()  *)
(* calls the index is the one buildIndex makes of the corpus held (empty   *)
(* when none is held), and every reference in it names an existing entry   *)
(* of its type in that corpus.                                             *)
(***************************************************************************)
C33_IndexMatchesCorpus ==
    /\ knowledge.index =
          IF knowledge.corpus = NoCorpus THEN EmptyIndex ELSE buildIndex(knowledge.corpus)
    /\ \A kw \in DOMAIN knowledge.index :
          \A ref \in Range(knowledge.index[kw]) :
              ref.index \in 1..Len(ChunksOf(knowledge.corpus, ref.type))

\* an update() has put the smaller corpus in the place of another
C33_Witness ==
    /\ answered.called
    /\ answered.by = "update"
    /\ answered.ok
    /\ knowledge.ready
    /\ knowledge.corpus = CorpusB
    /\ disk = CorpusB
    /\ DOMAIN knowledge.index # {}

(***************************************************************************)
(* C34: init() called when the knowledge base is ready returns true        *)
(* without a disk read or a download; init() called while a download is in *)
(* flight (and the base is not ready) returns false without starting       *)
(* another download; init() on a base that is not ready and has no         *)
(* download in flight reads the disk cache and, if that fails, starts      *)
(* exactly one download.                                                   *)
(***************************************************************************)
C34_LoadedOnceLazily ==
    lastInit.called =>
        IF lastInit.ready
        THEN lastInit.returned /\ lastInit.settled /\ ~lastInit.diskRead /\ lastInit.started = 0
        ELSE IF lastInit.pending > 0
        THEN ~lastInit.returned /\ lastInit.settled /\ ~lastInit.diskRead /\ lastInit.started = 0
        ELSE lastInit.diskRead /\ lastInit.started = (IF lastInit.settled THEN 0 ELSE 1)

(***************************************************************************)
(* C36: in every reachable state of the Knowledge module, when the ready   *)
(* flag is true the corpus held is not null, also after a download whose   *)
(* body is valid JSON but not a corpus.                                    *)
(***************************************************************************)
C36_ReadyMeansCorpus ==
    knowledge.ready => knowledge.corpus # NoCorpus

(***************************************************************************)
(* C37: the loading flag is true exactly while a download is in flight, at *)
(* most one download is in flight at a time, and no download that is       *)
(* answered after a download started later has installed its corpus        *)
(* replaces that corpus.                                                   *)
(***************************************************************************)
C37_LoadingMeansOneDownload ==
    /\ knowledge.loading <=> Len(inFlight) > 0
    /\ Len(inFlight) <= 1
    /\ ~answered.late

\* the prompts looked at return nothing
NothingRetrieved ==
    \A prompt \in ReloadPrompts : retrieve(knowledge, prompt, DefaultOptions).text = <<>>

ClosedBlocks(response) ==
    SelectSeq(<<response.first, response.second>>, LAMBDA b : b.present /\ b.closed)

FilledBlocks(response) == SelectSeq(ClosedBlocks(response), LAMBDA b : b.interior # "")

ResemblesCode(text) == IndexOf(text, "app.project", 1) # 0 \/ IndexOf(text, "var ", 1) # 0

\* C35: extractCode returns the trimmed interior of the first fenced block when the
\* response contains a fenced block with a non-empty interior (the first block, or the
\* first one that has an interior, is accepted here); without a fenced block it
\* returns the whole trimmed response if the text contains 'app.project' or 'var ',
\* and '' otherwise; what it returns never starts or ends with a space.
C35_ExtractsFirstBlockOrFallsBack ==
    extraction.called =>
        LET closed == ClosedBlocks(extraction.response)
            filled == FilledBlocks(extraction.response)
        IN  /\ filled # <<>> => extraction.code \in {closed[1].interior, filled[1].interior}
            /\ closed = <<>> =>
                    extraction.code = IF ResemblesCode(extraction.text)
                                      THEN trim(extraction.text) ELSE ""
            /\ extraction.code = trim(extraction.code)

\* the host replies that are neither the error marker nor JSON
RawReplies ==
    {reply \in HostReplies :
        /\ reply \notin {"EvalScript error.", EvalScript_ErrMessage}
        /\ JSONparse(reply) = ParseError}

\* the attempts of run r that were executed on the host and answered with a raw reply
RawAnswered(r) ==
    {i \in 1..Len(attempts[r]) :
        /\ attempts[r][i].code # ""
        /\ hostStub[attempts[r][i].attempt] \in RawReplies}

\* the run ended successfully at its i-th attempt
EndsSuccessfullyAt(r, i) ==
    /\ i = Len(attempts[r])
    /\ pc[r] = "resolved"
    /\ runResult[r].success
    /\ runResult[r].totalAttempts = i

\* C40 as claimed: a host reply that is neither the error marker nor parseable JSON
\* is recorded as an attempt with success = true and the raw text as its result, and
\* the run ends successfully at that attempt.
C40_RawReplyIsSuccessWithRawText ==
    \A r \in Runs : \A i \in RawAnswered(r) :
        /\ attempts[r][i].success
        /\ attempts[r][i].result = hostStub[attempts[r][i].attempt]
        /\ EndsSuccessfullyAt(r, i)

\* C40, amended: as above, but the result recorded is the raw text only when that
\* text is not empty; for an empty reply the attempt's result is null.
C40_RawReplyIsSuccess ==
    \A r \in Runs : \A i \in RawAnswered(r) :
        /\ attempts[r][i].success
        /\ attempts[r][i].result =
              IF hostStub[attempts[r][i].attempt] = "" THEN NULL
              ELSE hostStub[attempts[r][i].attempt]
        /\ attempts[r][i].error = NULL
        /\ EndsSuccessfullyAt(r, i)

\* a first attempt of a run that could have retried was answered with plain text
C40_Witness ==
    \E r \in Runs :
        /\ maxRetries[r] >= 2
        /\ 1 \in RawAnswered(r)
        /\ hostStub[1] = "Result: plain text"
        /\ attempts[r][1].result = "Result: plain text"
        /\ runResult[r].finalResult = "Result: plain text"

\* the run has made no more generation calls and no more execution calls than its budget
WithinBudget(r) ==
    /\ Count(r, "sendPrompt") <= Budget(options[r].maxRetries)
    /\ Count(r, "execResult") <= Budget(options[r].maxRetries)

\* C32: once run() is started it ends by resolving, and it makes at most maxRetries
\* generation calls and at most maxRetries execution calls (3 when maxRetries is
\* omitted); there is no way out of run() that leaves its promise unresolved.
C32_EndsResolvedWithinBudget ==
    \A r \in Runs :
        /\ WithinBudget(r)
        /\ pc[r] \in Terminal => pc[r] = "resolved" /\ runResult[r].returned

\* the chains whose run() has just been handed its history
JustHanded == {i \in 1..Len(chains) : chains[i].handed}

\* C31: the history slice handed to RetryEngine.run never contains the prompt just
\* submitted, whatever was appended to the transcript between addMessage('user',
\* prompt) and the completion of the comp-context fetch.
C31_SliceExcludesThePrompt ==
    \A i \in JustHanded :
        \A k \in 1..Len(chains[i].history) : chains[i].history[k] # chains[i].entry

====
